---- MODULE Spec2Model ----
(***************************************************************************)
(* Model of the GOST R 34.11-2012 (Streebog) hash object of src/hash/gost.py *)
(* Bytes are integers 0..255, byte strings are sequences of bytes.  Python   *)
(* index i is TLA+ index i + 1.                                              *)
(***************************************************************************)
EXTENDS Integers, Sequences, FiniteSets, TLC

BLOCKSIZE == 64

Pi ==
    <<252, 238, 221, 17, 207, 110, 49, 22, 251, 196, 250, 218, 35, 197, 4, 77,
      233, 119, 240, 219, 147, 46, 153, 186, 23, 54, 241, 187, 20, 205, 95, 193,
      249, 24, 101, 90, 226, 92, 239, 33, 129, 28, 60, 66, 139, 1, 142, 79,
      5, 132, 2, 174, 227, 106, 143, 160, 6, 11, 237, 152, 127, 212, 211, 31,
      235, 52, 44, 81, 234, 200, 72, 171, 242, 42, 104, 162, 253, 58, 206, 204,
      181, 112, 14, 86, 8, 12, 118, 18, 191, 114, 19, 71, 156, 183, 93, 135,
      21, 161, 150, 41, 16, 123, 154, 199, 243, 145, 120, 111, 157, 158, 178, 177,
      50, 117, 25, 61, 255, 53, 138, 126, 109, 84, 198, 128, 195, 189, 13, 87,
      223, 245, 36, 169, 62, 168, 67, 201, 215, 121, 214, 246, 124, 34, 185, 3,
      224, 15, 236, 222, 122, 148, 176, 188, 220, 232, 40, 80, 78, 51, 10, 74,
      167, 151, 96, 115, 30, 0, 98, 68, 26, 184, 56, 130, 100, 159, 38, 65,
      173, 69, 70, 146, 39, 94, 85, 47, 140, 163, 165, 125, 105, 213, 149, 59,
      7, 88, 179, 64, 134, 172, 29, 247, 48, 55, 107, 228, 136, 217, 231, 137,
      225, 27, 131, 73, 76, 63, 248, 254, 141, 83, 170, 144, 202, 216, 133, 97,
      32, 113, 103, 164, 45, 43, 9, 91, 203, 155, 37, 208, 190, 229, 108, 82,
      89, 166, 116, 210, 230, 244, 180, 192, 209, 102, 175, 194, 57, 75, 99, 182>>

Tau ==
    <<0, 8, 16, 24, 32, 40, 48, 56, 1, 9, 17, 25, 33, 41, 49, 57,
      2, 10, 18, 26, 34, 42, 50, 58, 3, 11, 19, 27, 35, 43, 51, 59,
      4, 12, 20, 28, 36, 44, 52, 60, 5, 13, 21, 29, 37, 45, 53, 61,
      6, 14, 22, 30, 38, 46, 54, 62, 7, 15, 23, 31, 39, 47, 55, 63>>

A ==
    <<<<142, 32, 250, 167, 43, 160, 180, 112>>,
      <<71, 16, 125, 221, 155, 80, 90, 56>>,
      <<173, 8, 176, 224, 195, 40, 45, 28>>,
      <<216, 4, 88, 112, 239, 20, 152, 14>>,
      <<108, 2, 44, 56, 249, 10, 76, 7>>,
      <<54, 1, 22, 28, 242, 5, 38, 141>>,
      <<27, 142, 11, 14, 121, 140, 19, 200>>,
      <<131, 71, 139, 7, 178, 70, 135, 100>>,
      <<160, 17, 211, 128, 129, 142, 143, 64>>,
      <<80, 134, 231, 64, 206, 71, 201, 32>>,
      <<40, 67, 253, 32, 103, 173, 234, 16>>,
      <<20, 175, 240, 16, 189, 216, 117, 8>>,
      <<10, 217, 120, 8, 208, 108, 180, 4>>,
      <<5, 226, 60, 4, 104, 54, 90, 2>>,
      <<140, 113, 30, 2, 52, 27, 45, 1>>,
      <<70, 182, 15, 1, 26, 131, 152, 142>>,
      <<144, 218, 181, 42, 56, 122, 231, 111>>,
      <<72, 109, 212, 21, 28, 61, 253, 185>>,
      <<36, 184, 106, 132, 14, 144, 240, 210>>,
      <<18, 92, 53, 66, 7, 72, 120, 105>>,
      <<9, 46, 148, 33, 141, 36, 60, 186>>,
      <<138, 23, 74, 158, 200, 18, 30, 93>>,
      <<69, 133, 37, 79, 100, 9, 15, 160>>,
      <<172, 204, 156, 169, 50, 138, 137, 80>>,
      <<157, 77, 240, 93, 95, 102, 20, 81>>,
      <<192, 168, 120, 160, 161, 51, 10, 166>>,
      <<96, 84, 60, 80, 222, 151, 5, 83>>,
      <<48, 42, 30, 40, 111, 197, 140, 167>>,
      <<24, 21, 15, 20, 185, 236, 70, 221>>,
      <<12, 132, 137, 10, 210, 118, 35, 224>>,
      <<6, 66, 202, 5, 105, 59, 159, 112>>,
      <<3, 33, 101, 140, 186, 147, 193, 56>>,
      <<134, 39, 93, 240, 156, 232, 170, 168>>,
      <<67, 157, 160, 120, 78, 116, 85, 84>>,
      <<175, 192, 80, 60, 39, 58, 164, 42>>,
      <<217, 96, 40, 30, 157, 29, 82, 21>>,
      <<226, 48, 20, 15, 192, 128, 41, 132>>,
      <<113, 24, 10, 137, 96, 64, 154, 66>>,
      <<182, 12, 5, 202, 48, 32, 77, 33>>,
      <<91, 6, 140, 101, 24, 16, 168, 158>>,
      <<69, 108, 52, 136, 122, 56, 5, 185>>,
      <<172, 54, 26, 68, 61, 28, 140, 210>>,
      <<86, 27, 13, 34, 144, 14, 70, 105>>,
      <<43, 131, 136, 17, 72, 7, 35, 186>>,
      <<155, 207, 68, 134, 36, 141, 159, 93>>,
      <<195, 233, 34, 67, 18, 200, 193, 160>>,
      <<239, 250, 17, 175, 9, 100, 238, 80>>,
      <<249, 125, 134, 217, 138, 50, 119, 40>>,
      <<228, 250, 32, 84, 168, 11, 50, 156>>,
      <<114, 125, 16, 42, 84, 139, 25, 78>>,
      <<57, 176, 8, 21, 42, 203, 130, 39>>,
      <<146, 88, 4, 132, 21, 235, 65, 157>>,
      <<73, 44, 2, 66, 132, 251, 174, 192>>,
      <<170, 22, 1, 33, 66, 243, 87, 96>>,
      <<85, 11, 142, 158, 33, 247, 165, 48>>,
      <<164, 139, 71, 79, 158, 245, 220, 24>>,
      <<112, 166, 165, 110, 36, 64, 89, 142>>,
      <<56, 83, 220, 55, 18, 32, 162, 71>>,
      <<28, 167, 110, 149, 9, 16, 81, 173>>,
      <<14, 221, 55, 196, 138, 8, 166, 216>>,
      <<7, 224, 149, 98, 69, 4, 83, 108>>,
      <<141, 112, 196, 49, 172, 2, 167, 54>>,
      <<200, 56, 98, 150, 86, 1, 221, 27>>,
      <<100, 28, 49, 75, 43, 142, 224, 131>>>>

C ==
    <<<<7, 69, 166, 242, 89, 101, 128, 221, 35, 77, 116, 204, 54, 116, 118, 5,
        21, 211, 96, 164, 8, 42, 66, 162, 1, 105, 103, 146, 145, 224, 124, 75,
        252, 196, 133, 117, 141, 184, 78, 113, 22, 208, 69, 46, 67, 118, 106, 47,
        31, 124, 101, 192, 129, 47, 203, 235, 233, 218, 202, 30, 218, 91, 8, 177>>,
      <<183, 155, 177, 33, 112, 4, 121, 230, 86, 205, 203, 215, 27, 162, 221, 85,
        202, 167, 10, 219, 194, 97, 181, 92, 88, 153, 214, 18, 107, 23, 181, 154,
        49, 1, 181, 22, 15, 94, 213, 97, 152, 43, 35, 10, 114, 234, 254, 243,
        215, 181, 112, 15, 70, 157, 227, 79, 26, 47, 157, 169, 138, 181, 163, 111>>,
      <<178, 10, 186, 10, 245, 150, 30, 153, 49, 219, 122, 134, 67, 244, 182, 194,
        9, 219, 98, 96, 55, 58, 201, 193, 177, 158, 53, 144, 228, 15, 226, 211,
        123, 123, 41, 177, 20, 117, 234, 242, 139, 31, 156, 82, 95, 94, 241, 6,
        53, 132, 61, 106, 40, 252, 57, 10, 199, 47, 206, 43, 172, 220, 116, 245>>,
      <<46, 209, 227, 132, 188, 190, 12, 34, 241, 55, 232, 147, 161, 234, 83, 52,
        190, 3, 82, 147, 51, 19, 183, 216, 117, 214, 3, 237, 130, 44, 215, 169,
        63, 53, 94, 104, 173, 28, 114, 157, 125, 60, 92, 51, 126, 133, 142, 72,
        221, 228, 113, 93, 160, 225, 72, 249, 210, 102, 21, 232, 179, 223, 31, 239>>,
      <<87, 254, 108, 124, 253, 88, 23, 96, 245, 99, 234, 169, 126, 162, 86, 122,
        22, 26, 39, 35, 183, 0, 255, 223, 163, 245, 58, 37, 71, 23, 205, 191,
        189, 255, 15, 128, 215, 53, 158, 53, 74, 16, 134, 22, 31, 28, 21, 127,
        99, 35, 169, 108, 12, 65, 63, 154, 153, 71, 71, 173, 172, 107, 234, 75>>,
      <<110, 125, 100, 70, 122, 64, 104, 250, 53, 79, 144, 54, 114, 197, 113, 191,
        182, 198, 190, 194, 102, 31, 242, 10, 180, 183, 154, 28, 183, 166, 250, 207,
        198, 142, 240, 154, 180, 154, 127, 24, 108, 164, 66, 81, 249, 196, 102, 45,
        192, 57, 48, 122, 59, 195, 164, 111, 217, 211, 58, 29, 174, 174, 79, 174>>,
      <<147, 212, 20, 58, 77, 86, 134, 136, 243, 74, 60, 162, 76, 69, 23, 53,
        4, 5, 74, 40, 131, 105, 71, 6, 55, 44, 130, 45, 197, 171, 146, 9,
        201, 147, 122, 25, 51, 62, 71, 211, 201, 135, 191, 230, 199, 198, 158, 57,
        84, 9, 36, 191, 254, 134, 172, 81, 236, 197, 170, 238, 22, 14, 199, 244>>,
      <<30, 231, 2, 191, 212, 13, 127, 164, 217, 168, 81, 89, 53, 194, 172, 54,
        47, 196, 165, 209, 43, 141, 209, 105, 144, 6, 155, 146, 203, 43, 137, 244,
        154, 196, 219, 77, 59, 68, 180, 137, 30, 222, 54, 156, 113, 248, 183, 78,
        65, 65, 110, 12, 2, 170, 231, 3, 167, 201, 147, 77, 66, 91, 31, 155>>,
      <<219, 90, 35, 131, 81, 68, 97, 114, 96, 42, 31, 203, 146, 220, 56, 14,
        84, 156, 7, 166, 154, 138, 43, 123, 177, 206, 178, 219, 11, 68, 10, 128,
        132, 9, 13, 224, 183, 85, 217, 60, 36, 66, 137, 37, 27, 58, 125, 58,
        222, 95, 22, 236, 216, 154, 76, 148, 155, 34, 49, 22, 84, 90, 143, 55>>,
      <<237, 156, 69, 152, 251, 199, 180, 116, 195, 182, 59, 21, 209, 250, 152, 54,
        244, 82, 118, 59, 48, 108, 30, 122, 75, 51, 105, 175, 2, 103, 231, 159,
        3, 97, 51, 27, 138, 225, 255, 31, 219, 120, 138, 255, 28, 231, 65, 137,
        243, 243, 228, 178, 72, 229, 42, 56, 82, 111, 5, 128, 166, 222, 190, 171>>,
      <<27, 45, 243, 129, 205, 164, 202, 107, 93, 216, 111, 192, 74, 89, 162, 222,
        152, 110, 71, 125, 29, 205, 186, 239, 202, 185, 72, 234, 239, 113, 29, 138,
        121, 102, 132, 20, 33, 128, 1, 32, 97, 7, 171, 235, 187, 107, 250, 216,
        148, 254, 90, 99, 205, 198, 2, 48, 251, 137, 200, 239, 208, 158, 205, 123>>,
      <<32, 215, 27, 241, 74, 146, 188, 72, 153, 27, 178, 217, 213, 23, 244, 250,
        82, 40, 225, 136, 170, 164, 29, 231, 134, 204, 145, 24, 157, 239, 128, 93,
        155, 159, 33, 48, 212, 18, 32, 248, 119, 29, 223, 188, 50, 60, 164, 205,
        122, 177, 73, 4, 176, 128, 19, 210, 186, 49, 22, 241, 103, 231, 142, 55>>>>

XorNibble ==
    <<<<0, 1, 2, 3, 4, 5, 6, 7, 8, 9, 10, 11, 12, 13, 14, 15>>,
      <<1, 0, 3, 2, 5, 4, 7, 6, 9, 8, 11, 10, 13, 12, 15, 14>>,
      <<2, 3, 0, 1, 6, 7, 4, 5, 10, 11, 8, 9, 14, 15, 12, 13>>,
      <<3, 2, 1, 0, 7, 6, 5, 4, 11, 10, 9, 8, 15, 14, 13, 12>>,
      <<4, 5, 6, 7, 0, 1, 2, 3, 12, 13, 14, 15, 8, 9, 10, 11>>,
      <<5, 4, 7, 6, 1, 0, 3, 2, 13, 12, 15, 14, 9, 8, 11, 10>>,
      <<6, 7, 4, 5, 2, 3, 0, 1, 14, 15, 12, 13, 10, 11, 8, 9>>,
      <<7, 6, 5, 4, 3, 2, 1, 0, 15, 14, 13, 12, 11, 10, 9, 8>>,
      <<8, 9, 10, 11, 12, 13, 14, 15, 0, 1, 2, 3, 4, 5, 6, 7>>,
      <<9, 8, 11, 10, 13, 12, 15, 14, 1, 0, 3, 2, 5, 4, 7, 6>>,
      <<10, 11, 8, 9, 14, 15, 12, 13, 2, 3, 0, 1, 6, 7, 4, 5>>,
      <<11, 10, 9, 8, 15, 14, 13, 12, 3, 2, 1, 0, 7, 6, 5, 4>>,
      <<12, 13, 14, 15, 8, 9, 10, 11, 4, 5, 6, 7, 0, 1, 2, 3>>,
      <<13, 12, 15, 14, 9, 8, 11, 10, 5, 4, 7, 6, 1, 0, 3, 2>>,
      <<14, 15, 12, 13, 10, 11, 8, 9, 6, 7, 4, 5, 2, 3, 0, 1>>,
      <<15, 14, 13, 12, 11, 10, 9, 8, 7, 6, 5, 4, 3, 2, 1, 0>>>>

Pow2 == <<1, 2, 4, 8, 16, 32, 64, 128, 256>>

\* ---------------------------------------------------------------- helpers

\* A function over 1..n as a sequence value.
SeqOf(f) == f \o <<>>

\* TLC evaluates operator arguments on demand: Forced(s, e) is e, with the byte
\* string s evaluated first, so that loops do not build chains of pending values.
Forced(s, e) == IF Len(s) >= 0 THEN e ELSE e

Zeros(k) == SeqOf([i \in 1..k |-> 0])

Rep(k, b) == SeqOf([i \in 1..k |-> b])

\* Python slice s[lo:hi] with 0 <= lo, clipped to the length of s.
Slice(s, lo, hi) ==
    LET h == IF hi > Len(s) THEN Len(s) ELSE hi
    IN  IF lo >= h THEN <<>> ELSE SeqOf([i \in 1..(h - lo) |-> s[lo + i]])

\* Python slice s[-k:].
Last(s, k) == IF Len(s) <= k THEN s ELSE Slice(s, Len(s) - k, Len(s))

XorTable ==
    SeqOf([x \in 1..256 |->
        SeqOf([y \in 1..256 |->
            XorNibble[((x - 1) \div 16) + 1][((y - 1) \div 16) + 1] * 16
                + XorNibble[((x - 1) % 16) + 1][((y - 1) % 16) + 1]])])

Xor8(x, y) == XorTable[x + 1][y + 1]

\* utils.strxor: XOR of two byte strings over their common length.
strxor(a, b) ==
    LET mlen == IF Len(a) < Len(b) THEN Len(a) ELSE Len(b)
    IN  SeqOf([i \in 1..mlen |-> Xor8(a[i], b[i])])

RECURSIVE PackLoop(_, _)
PackLoop(n, k) ==
    IF k = 0 THEN <<>> ELSE <<n % 256>> \o PackLoop(n \div 256, k - 1)

\* struct.pack("<Q", n): eight bytes, least significant first.
PackQ(n) == PackLoop(n, 8)

\* ---------------------------------------------------------------- add512bit

\* Steps i .. i + k - 1 of "cb = a[i] + b[i] + (cb >> 8); res[i] = cb & 0xff":
\* the bytes written, followed by the last cb.
RECURSIVE Add512Steps(_, _, _, _, _)
Add512Steps(a, b, i, k, cb) ==
    IF k = 0 THEN <<cb>>
    ELSE LET c == a[i + 1] + b[i + 1] + (cb \div 256)
         IN  <<c % 256>> \o Add512Steps(a, b, i + 1, k - 1, c)

\* The loop over i = 0..63, taken eight steps at a time to keep the evaluation
\* shallow; res holds the bytes written so far.
RECURSIVE Add512Loop(_, _, _, _, _)
Add512Loop(a, b, i, cb, res) ==
    IF i = 64 THEN res
    ELSE LET part == Add512Steps(a, b, i, 8, cb)
         IN  Add512Loop(a, b, i + 8, part[9], res \o SubSeq(part, 1, 8))

\* add512bit without the carry: cb = a[i] + b[i].
add512bitNoCarry(a, b) ==
    SeqOf([x \in 1..BLOCKSIZE |-> (a[x] + b[x]) % 256])

add512bit(a, b) == Forced(a, Forced(b, Add512Loop(a, b, 0, 0, <<>>)))

\* ---------------------------------------------------------------- L, PS, LPS

\* The last i with Tau[i] = t (as a 1-based index), 0 when there is none: the
\* write "res[Tau[i]] = Pi[data[i]]" that survives the loop over i.
TauLast ==
    SeqOf([t \in 1..BLOCKSIZE |->
        LET src == {i \in 1..BLOCKSIZE : Tau[i] + 1 = t}
        IN  IF src = {} THEN 0 ELSE CHOOSE i \in src : \A k \in src : k <= i])

PS(data) ==
    Forced(data,
      SeqOf([t \in 1..BLOCKSIZE |->
          IF TauLast[t] = 0 THEN 0 ELSE Pi[data[TauLast[t]] + 1]]))

\* pack("<Q", A[j]): A holds each constant most significant byte first.
PackA(j) == SeqOf([k \in 1..8 |-> A[j + 1][9 - k]])

\* Bit b (0 = most significant) of byte v.
ByteBit(v, b) == (v \div Pow2[8 - b]) % 2 = 1

\* The scan "if val & 0x8000000000000000: res64 ^= A[j]; val <<= 1" over the
\* eight bits j = 8 * q .. 8 * q + 7 that byte v holds, started from res64.
RECURSIVE LByteLoop(_, _, _, _)
LByteLoop(q, v, b, res64) ==
    IF b = 8 THEN res64
    ELSE Forced(res64,
           LByteLoop(q, v, b + 1,
               IF ByteBit(v, b) THEN strxor(res64, PackA(8 * q + b)) ELSE res64))

\* LScan[q + 1][v + 1]: what the scan of bits 8q..8q+7 XORs into res64 when
\* those bits are byte v.  XOR is associative and commutative, so the scan of
\* the whole word is the XOR of its eight parts.
LScan ==
    SeqOf([q \in 1..8 |->
        SeqOf([v \in 1..256 |-> LByteLoop(q - 1, v - 1, 0, Zeros(8))])])

\* The loop over j = 0..63 of L for one word: bits 8q..8q+7 of val are byte
\* 7 - q of its little-endian bytes w.
RECURSIVE LWordLoop(_, _, _)
LWordLoop(w, q, res64) ==
    IF q = 8 THEN res64
    ELSE Forced(res64,
           LWordLoop(w, q + 1, strxor(res64, LScan[q + 1][w[8 - q] + 1])))

LWord(w) == Forced(w, LWordLoop(w, 0, Zeros(8)))

RECURSIVE LLoop(_, _)
LLoop(data, i) ==
    IF i = 8 THEN <<>>
    ELSE LWord(Slice(data, i * 8, i * 8 + 8)) \o LLoop(data, i + 1)

\* L with the words taken from the second one on, the first one last.
LRotated(data) == Forced(data, LLoop(Slice(data, 8, 64) \o Slice(data, 0, 8), 0))

L(data) == Forced(data, LLoop(data, 0))

LPS(data) == L(PS(data))

\* ---------------------------------------------------------------- E, g

RECURSIVE ELoop(_, _, _)
ELoop(k, msg, i) ==
    IF i = 12 THEN strxor(k, msg)
    ELSE Forced(k, Forced(msg,
           ELoop(LPS(strxor(k, C[i + 1])), LPS(strxor(k, msg)), i + 1)))

\* E without its first round: range(1, 12).
EElevenRounds(k, msg) == ELoop(k, msg, 1)

E(k, msg) == ELoop(k, msg, 0)

\* g without the message in the feed-forward: strxor(res, hsh).
gNoMsg(n, hsh, msg) ==
    strxor(E(LPS(strxor(Slice(hsh, 0, 8), PackQ(n)) \o Slice(hsh, 8, Len(hsh))), msg), hsh)

\* g with n XORed into the last eight bytes of hsh: hsh[:56] + strxor(hsh[56:], pack("<Q", n)).
gStepTail(n, hsh, msg) ==
    LET res == E(LPS(Slice(hsh, 0, 56) \o strxor(Slice(hsh, 56, 64), PackQ(n))), msg)
    IN  Forced(hsh, Forced(msg, strxor(strxor(res, hsh), msg)))

g(n, hsh, msg) ==
    LET res == E(LPS(strxor(Slice(hsh, 0, 8), PackQ(n)) \o Slice(hsh, 8, Len(hsh))), msg)
    IN  Forced(hsh, Forced(msg, strxor(strxor(res, hsh), msg)))


\* ---------------------------------------------------------------- GOST341112

\* The initial hsh chosen by "!= 512" instead of "== 256".
IVNot512(digest_size) == Rep(BLOCKSIZE, IF digest_size # 512 THEN 1 ELSE 0)

\* hsh = BLOCKSIZE * (b'\x01' if self.digest_size == 256 else b'\x00')
IV(digest_size) == Rep(BLOCKSIZE, IF digest_size = 256 THEN 1 ELSE 0)

\* The padding with the zero fill done also when padlen == BLOCKSIZE.
PaddedFull(data) ==
    LET d1     == data \o <<1>>
        padlen == BLOCKSIZE - (Len(d1) % BLOCKSIZE)
    IN  d1 \o Zeros(padlen)

\* The padding with the byte 0x80 in place of 0x01.
PaddedBit(data) ==
    LET d1     == data \o <<128>>
        padlen == BLOCKSIZE - (Len(d1) % BLOCKSIZE)
    IN  IF padlen # BLOCKSIZE THEN d1 \o Zeros(padlen) ELSE d1

\* "data += b'\x01'" and the zero fill: the local data after padding.
Padded(data) ==
    LET d1     == data \o <<1>>
        padlen == BLOCKSIZE - (Len(d1) % BLOCKSIZE)
    IN  IF padlen # BLOCKSIZE THEN d1 \o Zeros(padlen) ELSE d1

\* The truncation to the first half: hsh[:32].
TruncateHead(hsh, digest_size) ==
    IF digest_size = 256 THEN Slice(hsh, 0, 32) ELSE hsh

\* if self.digest_size == 256: return hsh[32:]; return hsh
Truncate(hsh, digest_size) ==
    IF digest_size = 256 THEN Slice(hsh, 32, Len(hsh)) ELSE hsh

\* One call g(n, hsh, msg), as digest() records it.
GCall(n, hsh, msg) == [n |-> n, hsh |-> hsh, msg |-> msg]

\* digest() with the accumulated n as the step value of the length block:
\* g(n, hsh, pack("<Q", n) + ...).
DigestFinalLenN(data, digest_size, hsh, chk, n, calls) ==
    LET padblock_size == Len(data) * 8 - n
        pdata  == Padded(data)
        pblock == Last(pdata, BLOCKSIZE)
        hsh1   == g(n, hsh, pblock)
        n1     == n + padblock_size
        chk1   == add512bit(chk, pblock)
        lblock == PackQ(n1) \o Zeros(56)
        hsh2   == Forced(hsh1, g(n1, hsh1, lblock))
        hsh3   == Forced(hsh2, Forced(chk1, g(0, hsh2, chk1)))
    IN  [hsh   |-> hsh3,
         chk   |-> chk1,
         n     |-> n1,
         input |-> data,
         data  |-> pdata,
         calls |-> calls \o <<GCall(n, hsh, pblock), GCall(n1, hsh1, lblock),
                              GCall(0, hsh2, chk1)>>,
         ret   |-> Truncate(hsh3, digest_size)]

\* digest() counting the padded block as 512 bits: n += 512.
DigestFinalPaddedLen(data, digest_size, hsh, chk, n, calls) ==
    LET padblock_size == Len(data) * 8 - n
        pdata  == Padded(data)
        pblock == Last(pdata, BLOCKSIZE)
        hsh1   == g(n, hsh, pblock)
        n1     == n + 512
        chk1   == add512bit(chk, pblock)
        lblock == PackQ(n1) \o Zeros(56)
        hsh2   == Forced(hsh1, g(0, hsh1, lblock))
        hsh3   == Forced(hsh2, Forced(chk1, g(0, hsh2, chk1)))
    IN  [hsh   |-> hsh3,
         chk   |-> chk1,
         n     |-> n1,
         input |-> data,
         data  |-> pdata,
         calls |-> calls \o <<GCall(n, hsh, pblock), GCall(0, hsh1, lblock),
                              GCall(0, hsh2, chk1)>>,
         ret   |-> Truncate(hsh3, digest_size)]

\* digest() adding the unpadded tail to chk: the 0x01 byte left out.
DigestFinalRawTail(data, digest_size, hsh, chk, n, calls) ==
    LET padblock_size == Len(data) * 8 - n
        pdata  == Padded(data)
        pblock == Last(pdata, BLOCKSIZE)
        hsh1   == g(n, hsh, pblock)
        n1     == n + padblock_size
        chk1   == add512bit(chk, [pblock EXCEPT ![(Len(data) % BLOCKSIZE) + 1] = 0])
        lblock == PackQ(n1) \o Zeros(56)
        hsh2   == Forced(hsh1, g(0, hsh1, lblock))
        hsh3   == Forced(hsh2, Forced(chk1, g(0, hsh2, chk1)))
    IN  [hsh   |-> hsh3,
         chk   |-> chk1,
         n     |-> n1,
         input |-> data,
         data  |-> pdata,
         calls |-> calls \o <<GCall(n, hsh, pblock), GCall(0, hsh1, lblock),
                              GCall(0, hsh2, chk1)>>,
         ret   |-> Truncate(hsh3, digest_size)]

\* digest() with a length block of 65 bytes: 57 zero bytes after the length.
DigestFinalLongLen(data, digest_size, hsh, chk, n, calls) ==
    LET padblock_size == Len(data) * 8 - n
        pdata  == Padded(data)
        pblock == Last(pdata, BLOCKSIZE)
        hsh1   == g(n, hsh, pblock)
        n1     == n + padblock_size
        chk1   == add512bit(chk, pblock)
        lblock == PackQ(n1) \o Zeros(57)
        hsh2   == Forced(hsh1, g(0, hsh1, lblock))
        hsh3   == Forced(hsh2, Forced(chk1, g(0, hsh2, chk1)))
    IN  [hsh   |-> hsh3,
         chk   |-> chk1,
         n     |-> n1,
         input |-> data,
         data  |-> pdata,
         calls |-> calls \o <<GCall(n, hsh, pblock), GCall(0, hsh1, lblock),
                              GCall(0, hsh2, chk1)>>,
         ret   |-> Truncate(hsh3, digest_size)]

\* digest() after its loop over the full blocks: hsh, chk, n and calls are what
\* the loop left.  The result holds every g call in order, the final hsh, chk
\* and n, the data digest() started from, the local data as padded, and the
\* value returned.
DigestFinal(data, digest_size, hsh, chk, n, calls) ==
    LET padblock_size == Len(data) * 8 - n
        pdata  == Padded(data)
        pblock == Last(pdata, BLOCKSIZE)
        hsh1   == g(n, hsh, pblock)
        n1     == n + padblock_size
        chk1   == add512bit(chk, pblock)
        lblock == PackQ(n1) \o Zeros(56)
        hsh2   == Forced(hsh1, g(0, hsh1, lblock))
        hsh3   == Forced(hsh2, Forced(chk1, g(0, hsh2, chk1)))
    IN  [hsh   |-> hsh3,
         chk   |-> chk1,
         n     |-> n1,
         input |-> data,
         data  |-> pdata,
         calls |-> calls \o <<GCall(n, hsh, pblock), GCall(0, hsh1, lblock),
                              GCall(0, hsh2, chk1)>>,
         ret   |-> Truncate(hsh3, digest_size)]

\* for i in range(0, len(data) // BLOCKSIZE * BLOCKSIZE, BLOCKSIZE): the loop
\* from offset k on, followed by the rest of digest().
RECURSIVE DigestLoop(_, _, _, _, _, _, _)
DigestLoop(data, digest_size, k, hsh, chk, n, calls) ==
    IF k >= (Len(data) \div BLOCKSIZE) * BLOCKSIZE
    THEN DigestFinal(data, digest_size, hsh, chk, n, calls)
    ELSE Forced(hsh, Forced(chk,
           DigestLoop(data, digest_size, k + BLOCKSIZE,
                      g(n, hsh, Slice(data, k, k + BLOCKSIZE)),
                      add512bit(chk, Slice(data, k, k + BLOCKSIZE)),
                      n + 512,
                      Append(calls, GCall(n, hsh, Slice(data, k, k + BLOCKSIZE))))))

\* digest() starting from the zero hsh whatever the digest_size.
DigestRunZeroIV(data, digest_size) ==
    DigestLoop(data, digest_size, 0, Zeros(BLOCKSIZE), Zeros(BLOCKSIZE), 0, <<>>)

\* The body of digest() on the bytes data.
DigestRun(data, digest_size) ==
    DigestLoop(data, digest_size, 0, IV(digest_size), Zeros(BLOCKSIZE), 0, <<>>)

HexDigit ==
    <<"0", "1", "2", "3", "4", "5", "6", "7", "8", "9", "a", "b", "c", "d", "e", "f">>

\* utils.hexenc: lowercase hexadecimal, here one two-character token per byte.
hexenc(data) ==
    SeqOf([x \in 1..Len(data) |->
        HexDigit[(data[x] \div 16) + 1] \o HexDigit[(data[x] % 16) + 1]])

\* The Python types the data argument of the constructor can have.  A bytes
\* object is immutable, so "+=" on a name bound to it binds the name to a new
\* object; a bytearray is extended in place, in every name bound to it.
Kinds == {"bytes", "bytearray"}

\* GOST341112.__init__: stores both arguments as they are.
GOST341112(d, size, kind) ==
    [data |-> d, digest_size |-> size, kind |-> kind]

\* update that puts the new data in front: self.data = data + self.data.
updateFront(self, d) == [self EXCEPT !.data = d \o self.data]

\* GOST341112.update: self.data += data.
update(self, d) == [self EXCEPT !.data = self.data \o d]

\* GOST341112.digest: "data = self.data" binds the local name to the object
\* self.data is bound to, so the in-place "data += ..." of a bytearray is a
\* change of self.data.
digest(self) ==
    LET r == DigestRun(self.data, self.digest_size)
    IN  [self |-> IF self.kind = "bytearray"
                  THEN [self EXCEPT !.data = r.data] ELSE self,
         ret  |-> r.ret,
         run  |-> r]

\* GOST341112.hexdigest
hexdigest(self) ==
    LET d == digest(self) IN [d EXCEPT !.ret = hexenc(d.ret)]

\* ---------------------------------------------------------------- messages

\* The 63-byte message of ASCII digits "0123456789012...012".
M1 == SeqOf([x \in 1..63 |-> 48 + ((x - 1) % 10)])

\* The 72-byte message of the standard's second example, first byte first.
M2 ==
    <<209, 229, 32, 226, 229, 242, 240, 232, 44, 32, 209, 242, 240, 232, 225, 238,
      230, 232, 32, 226, 237, 243, 246, 232, 44, 32, 226, 229, 254, 242, 250, 32,
      241, 32, 236, 238, 240, 255, 32, 241, 242, 240, 229, 235, 224, 236, 232, 32,
      237, 224, 32, 245, 240, 224, 225, 240, 251, 255, 32, 239, 235, 250, 234, 251,
      32, 200, 227, 238, 240, 229, 226, 251>>

\* What the callers of the model pass to the constructor: data, digest_size.
InitData == {<<>>, M1, M2}

Sizes == {256, 512, 384}

\* What they pass to update().
Chunks == {<<48>>}

\* The number of method calls made on one object.
MaxCalls == 2

\* calculate_hash: the chunks the file iterator can yield, and how many.
FileChunks == {<<>>, <<48>>, <<49, 50>>, M1}

MaxChunks == 2

\* The operands add512bit is applied to: 64 bytes each.
Operands ==
    { Zeros(64),
      <<255>> \o Zeros(63),
      <<1>> \o Zeros(63),
      <<0, 1>> \o Zeros(62),
      <<255, 255>> \o Zeros(62),
      <<57, 48, 1>> \o Zeros(61),
      Rep(8, 255) \o Zeros(56),
      Zeros(63) \o <<255>>,
      Zeros(63) \o <<1>>,
      Rep(64, 255),
      Rep(64, 128),
      SeqOf([x \in 1..64 |-> (x * 37) % 256]) }

\* ---------------------------------------------------------------- state

VARIABLES
    obj,      \* the hash object: its data, digest_size, and the type of data
    raised,   \* the exception the constructor raised, "none" when it returned
    fed,      \* the constructor's data followed by every update() argument
    chunks,   \* the update() arguments so far, in call order
    ndig,     \* the number of digest() and hexdigest() calls so far
    last,     \* the last call: "init", "update", "digest" or "hexdigest"
    ret,      \* what the last call returned (<<>> for None)
    prev,     \* the call before the last, and what it returned
    run,      \* the g calls and final values of the last digest computation
    opA,      \* add512bit: the first operand
    opB,      \* add512bit: the second operand
    acc,      \* add512bit: what it returned, <<>> before the call
    request,  \* run_wsgi: the application and the server settings of a request
    handler,  \* run_wsgi: the handler's locals, attributes and written bytes
    received, \* make_environ: the request line's URL and the header lines
    environ,  \* make_environ: the header keys of the WSGI environment
    launch,   \* run_simple: its arguments, its position and its effects
    core,     \* g, E or L applied once: the arguments and what it returned
    stream,   \* LimitedStream: the wrapped stream, the object and the last call
    dechunk,  \* DechunkedInput: the request body, the object and the last readinto
    form,     \* FormDataParser: the parser, the call, the input stream and the outcome
    store     \* the file store of the application: directories, files and the last request

hashVars == <<obj, raised, fed, chunks, ndig, last, ret, prev, run>>

addVars == <<opA, opB, acc>>

serveVars == <<request, handler>>

environVars == <<received, environ>>

launchVars == <<launch>>

serverVars == <<serveVars, environVars, launchVars>>

coreVars == <<core>>

streamVars == <<stream>>

dechunkVars == <<dechunk>>

formVars == <<form>>

storeVars == <<store>>

moreVars == <<coreVars, streamVars, dechunkVars, formVars, storeVars>>

vars == <<hashVars, addVars, serverVars, moreVars>>

NoRun ==
    [hsh |-> <<>>, chk |-> <<>>, n |-> 0, input |-> <<>>, data |-> <<>>,
     calls |-> <<>>, ret |-> <<>>]

\* The state after GOST341112(d, size): __init__ raises nothing.
Constructed(d, size, kind) ==
    /\ obj = GOST341112(d, size, kind)
    /\ fed = d
    /\ raised = "none"
    /\ chunks = <<>>
    /\ ndig = 0
    /\ last = "init"
    /\ ret = <<>>
    /\ prev = [op |-> "none", ret |-> <<>>]
    /\ run = NoRun

\* No add512bit call of its own is being observed.
AddIdle == opA = <<>> /\ opB = <<>> /\ acc = <<>>

\* No request is being handled.
ServeIdle == request = <<>> /\ handler = <<>>

\* No environment is being made.
EnvironIdle == received = <<>> /\ environ = <<>>

\* run_simple has not been called.
LaunchIdle == launch = <<>>

ServerIdle == ServeIdle /\ EnvironIdle /\ LaunchIdle

\* None of g, E and L is being applied on its own.
CoreIdle == core = <<>>

\* No LimitedStream is being read.
StreamIdle == stream = <<>>

\* No DechunkedInput is being read.
DechunkIdle == dechunk = <<>>

\* No form data is being parsed.
FormIdle == form = <<>>

\* The application has served no request.
StoreIdle == store = <<>>

MoreIdle == CoreIdle /\ StreamIdle /\ DechunkIdle /\ FormIdle /\ StoreIdle

Init ==
    /\ \E d \in InitData, size \in Sizes, kind \in Kinds : Constructed(d, size, kind)
    /\ AddIdle
    /\ ServerIdle
    /\ MoreIdle

Update(c) ==
    /\ obj' = update(obj, c)
    /\ fed' = fed \o c
    /\ chunks' = Append(chunks, c)
    /\ prev' = [op |-> last, ret |-> ret]
    /\ last' = "update"
    /\ ret' = <<>>
    /\ UNCHANGED <<raised, ndig, run, addVars, serverVars, moreVars>>

Digest ==
    /\ \E r \in {digest(obj)} :
          /\ obj' = r.self
          /\ ret' = r.ret
          /\ run' = r.run
    /\ ndig' = ndig + 1
    /\ prev' = [op |-> last, ret |-> ret]
    /\ last' = "digest"
    /\ UNCHANGED <<raised, fed, chunks, addVars, serverVars, moreVars>>

HexDigest ==
    /\ \E r \in {hexdigest(obj)} :
          /\ obj' = r.self
          /\ ret' = r.ret
          /\ run' = r.run
    /\ ndig' = ndig + 1
    /\ prev' = [op |-> last, ret |-> ret]
    /\ last' = "hexdigest"
    /\ UNCHANGED <<raised, fed, chunks, addVars, serverVars, moreVars>>

\* Any MaxCalls method calls on one object, in any order.
Next ==
    \/ \E c \in Chunks : Len(chunks) + ndig < MaxCalls /\ Update(c)
    \/ Len(chunks) + ndig < MaxCalls /\ Digest
    \/ Len(chunks) + ndig < MaxCalls /\ HexDigest

Spec == Init /\ [][Next]_vars

\* calculate_hash (src/test.py): GOST341112(), update(chunk) for every chunk
\* of the file, then one hexdigest(); and the same with digest() and with the
\* other digest_size.
InitChunks ==
    /\ \E size \in {256, 512} : Constructed(<<>>, size, "bytes")
    /\ AddIdle
    /\ ServerIdle
    /\ MoreIdle

NextChunks ==
    \/ \E c \in FileChunks : ndig = 0 /\ Len(chunks) < MaxChunks /\ Update(c)
    \/ ndig = 0 /\ HexDigest
    \/ ndig = 0 /\ Digest

SpecChunks == InitChunks /\ [][NextChunks]_vars

\* add512bit applied once to a pair of operands.
InitAdd ==
    /\ Constructed(<<>>, 512, "bytes")
    /\ opA \in Operands
    /\ opB \in Operands
    /\ acc = <<>>
    /\ ServerIdle
    /\ MoreIdle

Add ==
    /\ acc = <<>>
    /\ acc' = add512bit(opA, opB)
    /\ UNCHANGED <<hashVars, opA, opB, serverVars, moreVars>>

NextAdd == Add

SpecAdd == InitAdd /\ [][NextAdd]_vars

\* g, E or L applied once to arguments of its own.
CoreBlocks ==
    {Zeros(BLOCKSIZE),
     Rep(BLOCKSIZE, 1),
     Rep(BLOCKSIZE, 255),
     SeqOf([x \in 1..BLOCKSIZE |-> x - 1]),
     SeqOf([x \in 1..BLOCKSIZE |-> (37 * x + 11) % 256])}

CoreSteps == {0, 512, 66048}

InitCore ==
    /\ Constructed(<<>>, 512, "bytes")
    /\ AddIdle
    /\ ServerIdle
    /\ StoreIdle
    /\ FormIdle
    /\ DechunkIdle
    /\ StreamIdle
    /\ \E nn \in CoreSteps, hh \in CoreBlocks, mm \in CoreBlocks :
          core = [fn |-> "none", n |-> nn, hsh |-> hh, msg |-> mm, out |-> <<>>]

\* g(n, hsh, msg)
CallG ==
    /\ core.fn = "none"
    /\ core' = [core EXCEPT !.fn = "g", !.out = g(core.n, core.hsh, core.msg)]
    /\ UNCHANGED <<hashVars, addVars, serverVars, streamVars, dechunkVars, formVars, storeVars>>

\* E(k, msg), with hsh as the key k
CallE ==
    /\ core.fn = "none"
    /\ core' = [core EXCEPT !.fn = "E", !.out = E(core.hsh, core.msg)]
    /\ UNCHANGED <<hashVars, addVars, serverVars, streamVars, dechunkVars, formVars, storeVars>>

\* L(data), with hsh as data
CallL ==
    /\ core.fn = "none"
    /\ core' = [core EXCEPT !.fn = "L", !.out = L(core.hsh)]
    /\ UNCHANGED <<hashVars, addVars, serverVars, streamVars, dechunkVars, formVars, storeVars>>

NextCore ==
    \/ CallG
    \/ CallE
    \/ CallL

SpecCore == InitCore /\ [][NextCore]_vars


\* ---------------------------------------------------------------- properties

\* The last call was digest() or hexdigest().
Digested == last \in {"digest", "hexdigest"}

\* What a caller that asked for the last call got from the digest bytes.
Returned(bytes) == IF last = "hexdigest" THEN hexenc(bytes) ELSE bytes

\* C1: after any interleaving of update() and digest() calls, every digest()
\* returns what a fresh object of the same digest_size returns for the
\* constructor's data followed by all the update() arguments so far.
C1_DigestOfConcatenation ==
    Digested =>
        ret = Returned(digest(GOST341112(fed, obj.digest_size, "bytes")).ret)

\* C2: two digest() calls in a row, or two hexdigest() calls in a row, with no
\* update() between them, return the same value.
C2_Deterministic ==
    (Digested /\ prev.op = last) => ret = prev.ret

\* C3: update(c1); ...; update(ck) followed by digest() yields the digest of
\* one update(c1 + ... + ck) followed by digest(), and of an object constructed
\* with c1 + ... + ck, whatever the chunks (empty ones included).
RECURSIVE Flatten(_)
Flatten(cs) == IF cs = <<>> THEN <<>> ELSE Head(cs) \o Flatten(Tail(cs))

C3_IncrementalEquivalence ==
    Digested =>
        LET whole  == Flatten(chunks)
            single == digest(update(GOST341112(<<>>, obj.digest_size, obj.kind), whole))
            built  == digest(GOST341112(whole, obj.digest_size, obj.kind))
        IN  /\ ret = Returned(single.ret)
            /\ ret = Returned(built.ret)

\* C3 witness: two chunks that fill exactly one block, then digest().
C3_Witness ==
    /\ last = "digest"
    /\ chunks = <<M1, <<48>>>>
    /\ Len(run.calls) = 4
    /\ Len(ret) = 64

\* C4: a digest() call leaves self.data and self.digest_size as they were.
C4_DigestIsPureRead ==
    [][ndig' # ndig => (obj'.data = obj.data /\ obj'.digest_size = obj.digest_size)]_vars

\* C5: a digest_size that is neither 256 nor 512 is rejected with
\* InvalidParameter at construction, so no object holds such a digest_size.
C5_InvalidSizeRejected ==
    obj.digest_size \notin {256, 512} => raised = "InvalidParameter"

\* C6: digest_size 256 alone selects the 256-bit mode; with any other value
\* the object does what it does with 512: hsh starts as 64 zero bytes, the
\* whole 64-byte hsh is returned, and self.data ends the same.
C6_Only256Selects256 ==
    Digested =>
        /\ obj.digest_size # 256 =>
              LET as512 == digest(GOST341112(run.input, 512, obj.kind))
              IN  /\ run.calls[1].hsh = Zeros(64)
                  /\ Len(run.ret) = 64
                  /\ run.ret = run.hsh
                  /\ run.ret = as512.ret
                  /\ obj.data = as512.self.data
        /\ obj.digest_size = 256 =>
              /\ run.calls[1].hsh = Rep(64, 1)
              /\ Len(run.ret) = 32

\* C6 witness: digest() of the 72-byte message with digest_size 384.
C6_Witness ==
    /\ Digested
    /\ obj.digest_size = 384
    /\ run.input = M2
    /\ Len(run.ret) = 64

\* C7: digest() returns 64 bytes with digest_size 512 and 32 bytes with 256,
\* and those 32 bytes are bytes 32..63 of the final 64-byte hsh.
C7_DigestLength ==
    last = "digest" =>
        /\ obj.digest_size = 512 => Len(ret) = 64 /\ ret = run.hsh
        /\ obj.digest_size = 256 =>
              /\ Len(ret) = 32
              /\ Len(run.hsh) = 64
              /\ \A x \in 1..32 : ret[x] = run.hsh[32 + x]

\* C7 witness: digest() of the empty message with digest_size 256.
C7_Witness ==
    /\ last = "digest"
    /\ obj.digest_size = 256
    /\ run.input = <<>>
    /\ Len(ret) = 32

\* C8: digest() of a fresh object with no data compresses one message block,
\* 0x01 then 63 zero bytes, with n = 0; chk is that block; then come the
\* length block (n = 0, so all zero) and chk, each with step value 0.
C8_EmptyInput ==
    (Digested /\ ndig = 1 /\ chunks = <<>> /\ fed = <<>>) =>
        LET pad == <<1>> \o Zeros(63)
            h1  == g(0, IV(obj.digest_size), pad)
            h2  == Forced(h1, g(0, h1, Zeros(64)))
        IN  /\ Len(run.calls) = 3
            /\ run.calls[1] = GCall(0, IV(obj.digest_size), pad)
            /\ run.n = 0
            /\ run.chk = pad
            /\ run.calls[2] = GCall(0, h1, Zeros(64))
            /\ run.calls[3] = GCall(0, h2, pad)
            /\ run.hsh = Forced(h2, g(0, h2, pad))

\* C8 witness: the first call on an object constructed with no data is
\* digest().
C8_Witness ==
    /\ last = "digest"
    /\ ndig = 1
    /\ chunks = <<>>
    /\ fed = <<>>
    /\ Len(run.calls) = 3

\* The carry into byte x of a + b: some lower byte k overflows on its own and
\* every byte between k and x passes a carry on.
CarryIn(a, b, x) ==
    \E k \in 1..(x - 1) :
        /\ a[k] + b[k] >= 256
        /\ \A m \in (k + 1)..(x - 1) : a[m] + b[m] = 255

\* The integer a byte string with at most three low non-zero bytes encodes.
IsSmall(s) == \A x \in 4..64 : s[x] = 0

Value(s) == s[1] + 256 * s[2] + 65536 * s[3]

\* C9: add512bit(a, b) is the 64-byte little-endian (a + b) mod 2^512: each
\* byte is the sum of the operands' bytes and the carry from below, and the
\* carry out of byte 63 is dropped; zeros + zeros = zeros and
\* [FF, 0, ...] + [01, 0, ...] = [00, 01, 0, ...].
C9_Add512 ==
    acc # <<>> =>
        /\ Len(acc) = 64
        /\ \A x \in 1..64 :
              acc[x] = (opA[x] + opB[x] + (IF CarryIn(opA, opB, x) THEN 1 ELSE 0)) % 256
        /\ (IsSmall(opA) /\ IsSmall(opB) /\ opA[3] + opB[3] < 255) =>
              IsSmall(acc) /\ Value(acc) = Value(opA) + Value(opB)
        /\ (opA = Zeros(64) /\ opB = Zeros(64)) => acc = Zeros(64)
        /\ (opA = <<255>> \o Zeros(63) /\ opB = <<1>> \o Zeros(63)) =>
              acc = <<0, 1>> \o Zeros(62)
        /\ (opA = Rep(64, 255) /\ opB = <<1>> \o Zeros(63)) => acc = Zeros(64)

\* C9 witness: [FF, 0, ...] + [01, 0, ...] has been added.
C9_Witness ==
    /\ opA = <<255>> \o Zeros(63)
    /\ opB = <<1>> \o Zeros(63)
    /\ acc = <<0, 1>> \o Zeros(62)

\* The hash values the standard prints for its two examples, as printed: a
\* 512- or 256-bit vector with its last byte (byte 63 or 31) leftmost.
Published512M1 ==
    <<"48", "6f", "64", "c1", "91", "78", "79", "41", "7f", "ef", "08", "2b", "33", "81", "a4", "e2",
      "11", "c3", "24", "f0", "74", "65", "4c", "38", "82", "3a", "7b", "76", "f8", "30", "ad", "00",
      "fa", "1f", "ba", "e4", "2b", "12", "85", "c0", "35", "2f", "22", "75", "24", "bc", "9a", "b1",
      "62", "54", "28", "8d", "d6", "86", "3d", "cc", "d5", "b9", "f5", "4a", "1a", "d0", "54", "1b">>

Published256M1 ==
    <<"00", "55", "7b", "e5", "e5", "84", "fd", "52", "a4", "49", "b1", "6b", "02", "51", "d0", "5d",
      "27", "f9", "4a", "b7", "6c", "ba", "a6", "da", "89", "0b", "59", "d8", "ef", "1e", "15", "9d">>

Published512M2 ==
    <<"28", "fb", "c9", "ba", "da", "03", "3b", "14", "60", "64", "2b", "dc", "dd", "b9", "0c", "3f",
      "b3", "e5", "6c", "49", "7c", "cd", "0f", "62", "b8", "a2", "ad", "49", "35", "e8", "5f", "03",
      "76", "13", "96", "6d", "e4", "ee", "00", "53", "1a", "e6", "0f", "3b", "5a", "47", "f8", "da",
      "e0", "69", "15", "d5", "f2", "f1", "94", "99", "6f", "ca", "bf", "26", "22", "e6", "88", "1e">>

Published256M2 ==
    <<"50", "8f", "7e", "55", "3c", "06", "50", "1d", "74", "9a", "66", "fc", "28", "c6", "ca", "c0",
      "b0", "05", "74", "6d", "97", "53", "7f", "a8", "5d", "9e", "40", "90", "4e", "fe", "d2", "9d">>

RECURSIVE Reverse(_)
Reverse(s) == IF s = <<>> THEN <<>> ELSE Reverse(Tail(s)) \o <<Head(s)>>

\* C10: hexdigest() of the standard's two example messages is the published
\* hash value, byte 0 first, for digest_size 256 and 512.
C10_KnownAnswers ==
    (last = "hexdigest" /\ ndig = 1) =>
        /\ (fed = M1 /\ obj.digest_size = 512) => ret = Reverse(Published512M1)
        /\ (fed = M1 /\ obj.digest_size = 256) => ret = Reverse(Published256M1)
        /\ (fed = M2 /\ obj.digest_size = 512) => ret = Reverse(Published512M2)
        /\ (fed = M2 /\ obj.digest_size = 256) => ret = Reverse(Published256M2)

\* C10 witness: hexdigest() of the 72-byte message with digest_size 256.
C10_Witness ==
    /\ last = "hexdigest"
    /\ ndig = 1
    /\ fed = M2
    /\ obj.digest_size = 256
    /\ Len(ret) = 32

\* The complete 64-byte blocks of a message and its length in blocks.
FullBlocks(data) == Len(data) \div 64

BlockAt(data, x) == SeqOf([y \in 1..64 |-> data[64 * x + y]])

\* C17: for a message of length len, g is called floor(len / 64) + 3 times:
\* on the complete blocks in message order, the i-th with step value 512 * i,
\* each on the result of the call before; then on the final block with step
\* value 512 * floor(len / 64); then twice with step value 0.
C17_StepOrder ==
    Digested =>
        LET nb == FullBlocks(run.input)
        IN  /\ Len(run.calls) = nb + 3
            /\ \A x \in 0..(nb - 1) :
                  /\ run.calls[x + 1].n = 512 * x
                  /\ run.calls[x + 1].msg = BlockAt(run.input, x)
            /\ run.calls[nb + 1].n = 512 * nb
            /\ run.calls[nb + 2].n = 0
            /\ run.calls[nb + 2].msg = PackQ(run.n) \o Zeros(56)
            /\ run.calls[nb + 3].n = 0
            /\ run.calls[nb + 3].msg = run.chk
            /\ run.calls[1].hsh = IV(obj.digest_size)
            /\ \A x \in 1..(nb + 2) :
                  run.calls[x + 1].hsh =
                      g(run.calls[x].n, run.calls[x].hsh, run.calls[x].msg)
            /\ run.hsh = g(0, run.calls[nb + 3].hsh, run.calls[nb + 3].msg)

\* C17 witness: a digest of the 72-byte message followed by one more byte:
\* one complete block, four calls.
C17_Witness ==
    /\ Digested
    /\ Len(run.input) = 73
    /\ Len(run.calls) = 4
    /\ run.calls[2].n = 512

\* C18: with r = len mod 64 the final block is the r trailing message bytes,
\* one 0x01 byte and 63 - r zero bytes, 64 bytes in all; it is the one block
\* processed after the complete blocks, also when r = 0 and when r = 63.
C18_Padding ==
    Digested =>
        LET nb  == FullBlocks(run.input)
            rem == Len(run.input) % 64
            fin == run.calls[nb + 1].msg
        IN  /\ Len(fin) = 64
            /\ \A x \in 1..rem : fin[x] = run.input[64 * nb + x]
            /\ fin[rem + 1] = 1
            /\ \A x \in (rem + 2)..64 : fin[x] = 0
            /\ Len(run.calls) = nb + 3

\* C18 witness: a 64-byte message (r = 0): the final block is 0x01 and 63
\* zero bytes, after the one complete block.
C18_Witness ==
    /\ Digested
    /\ Len(run.input) = 64
    /\ run.calls[2].msg = <<1>> \o Zeros(63)
    /\ run.calls[1].msg = run.input

\* C18 witness for r = 63: no zero fill.
C18_WitnessNoFill ==
    /\ Digested
    /\ run.input = M1
    /\ run.calls[1].msg = M1 \o <<1>>

\* The integer that eight little-endian bytes encode, for values below 2^24.
LittleEndian(s) == s[1] + 256 * s[2] + 65536 * s[3]

\* C19: n ends as 8 * len: 512 for each complete block and 8 * r for the
\* final block; the length block is that value, little-endian in 8 bytes,
\* followed by 56 zero bytes.
C19_BitLength ==
    Digested =>
        LET nb   == FullBlocks(run.input)
            rem  == Len(run.input) % 64
            lenb == run.calls[nb + 2].msg
        IN  /\ run.calls[nb + 1].n = 512 * nb
            /\ run.n = 512 * nb + 8 * rem
            /\ run.n = 8 * Len(run.input)
            /\ Len(lenb) = 64
            /\ LittleEndian(lenb) = 8 * Len(run.input)
            /\ \A x \in 4..64 : lenb[x] = 0

\* C19 witness: the 63-byte message: n = 504, length block F8 01 00 ...
C19_Witness ==
    /\ Digested
    /\ run.input = M1
    /\ run.n = 504
    /\ run.calls[2].msg = <<248, 1>> \o Zeros(62)

\* The sum of byte x of the first k blocks.
RECURSIVE ByteSum(_, _, _)
ByteSum(blocks, k, x) ==
    IF k = 0 THEN 0 ELSE blocks[k][x] + ByteSum(blocks, k - 1, x)

\* The sum of byte x of all blocks and the carry from the bytes below.
RECURSIVE ColumnTotal(_, _)
ColumnTotal(blocks, x) ==
    IF x = 0 THEN 0
    ELSE (ColumnTotal(blocks, x - 1) \div 256) + ByteSum(blocks, Len(blocks), x)

\* The blocks as 64-byte little-endian integers, added up mod 2^512.
SumBlocks(blocks) == SeqOf([x \in 1..64 |-> ColumnTotal(blocks, x) % 256])

\* C20: the block of the last g call is the sum mod 2^512 of the complete
\* message blocks and the padded final block, 0x01 byte included; the length
\* block is not part of it.
C20_Checksum ==
    Digested =>
        LET nb     == FullBlocks(run.input)
            blocks == SeqOf([x \in 1..(nb + 1) |-> run.calls[x].msg])
        IN  /\ run.calls[nb + 3].msg = SumBlocks(blocks)
            /\ run.chk = SumBlocks(blocks)

\* C20 witness: the 72-byte message: one complete block plus the padded
\* final block, with a carry between bytes.
C20_Witness ==
    /\ Digested
    /\ run.input = M2
    /\ run.chk = SumBlocks(<<run.calls[1].msg, run.calls[2].msg>>)
    /\ \E x \in 1..64 : run.calls[1].msg[x] + run.calls[2].msg[x] >= 256


\* ---------------------------------------------------------------- strings

\* Python str and bytes values of the server are sequences of character
\* codes, so that upper(), lower(), replace(), split(), hex() and the
\* comparison of strings are computed character by character.

\* "Content-Length"
StrContentLength == <<67, 111, 110, 116, 101, 110, 116, 45, 76, 101, 110, 103, 116, 104>>

\* "content-length"
StrContentLengthLower == <<99, 111, 110, 116, 101, 110, 116, 45, 108, 101, 110, 103, 116, 104>>

\* "CONTENT-LENGTH"
StrContentLengthUpper == <<67, 79, 78, 84, 69, 78, 84, 45, 76, 69, 78, 71, 84, 72>>

\* "Content-Type"
StrContentType == <<67, 111, 110, 116, 101, 110, 116, 45, 84, 121, 112, 101>>

\* "Transfer-Encoding"
StrTransferEncoding == <<84, 114, 97, 110, 115, 102, 101, 114, 45, 69, 110, 99, 111, 100, 105, 110, 103>>

\* "Connection"
StrConnection == <<67, 111, 110, 110, 101, 99, 116, 105, 111, 110>>

\* "connection"
StrConnectionLower == <<99, 111, 110, 110, 101, 99, 116, 105, 111, 110>>

\* "Server"
StrServer == <<83, 101, 114, 118, 101, 114>>

\* "Date"
StrDate == <<68, 97, 116, 101>>

\* "chunked"
StrChunked == <<99, 104, 117, 110, 107, 101, 100>>

\* "close"
StrClose == <<99, 108, 111, 115, 101>>

\* "keep-alive"
StrKeepAlive == <<107, 101, 101, 112, 45, 97, 108, 105, 118, 101>>

\* "text/plain"
StrTextPlain == <<116, 101, 120, 116, 47, 112, 108, 97, 105, 110>>

\* "1"
StrOne == <<49>>

\* "HTTP/0.9"
StrHttp09 == <<72, 84, 84, 80, 47, 48, 46, 57>>

\* "HTTP/1.0"
StrHttp10 == <<72, 84, 84, 80, 47, 49, 46, 48>>

\* "HTTP/1.1"
StrHttp11 == <<72, 84, 84, 80, 47, 49, 46, 49>>

\* "HTTP/2.0"
StrHttp20 == <<72, 84, 84, 80, 47, 50, 46, 48>>

\* "200 OK"
Str200 == <<50, 48, 48, 32, 79, 75>>

\* "OK"
StrOK == <<79, 75>>

\* "HTTP/1.1 100 Continue\r\n\r\n"
StrContinue == <<72, 84, 84, 80, 47, 49, 46, 49, 32, 49, 48, 48, 32, 67, 111, 110, 116, 105, 110, 117, 101, 13, 10, 13, 10>>

\* "\r\n"
CRLF == <<13, 10>>

\* "0\r\n\r\n"
LastChunk == <<48, 13, 10, 13, 10>>

\* "0123456789abcdef"
HexDigits == <<48, 49, 50, 51, 52, 53, 54, 55, 56, 57, 97, 98, 99, 100, 101, 102>>

\* str.lower()
Lower(s) ==
    SeqOf([x \in 1..Len(s) |-> IF s[x] >= 65 /\ s[x] <= 90 THEN s[x] + 32 ELSE s[x]])

\* str.upper()
Upper(s) ==
    SeqOf([x \in 1..Len(s) |-> IF s[x] >= 97 /\ s[x] <= 122 THEN s[x] - 32 ELSE s[x]])

\* a >= b on Python strings: the first differing character decides, and a
\* string is greater than each of its proper prefixes.
RECURSIVE StrGe(_, _)
StrGe(a, b) ==
    IF b = <<>> THEN TRUE
    ELSE IF a = <<>> THEN FALSE
    ELSE IF Head(a) # Head(b) THEN Head(a) > Head(b)
    ELSE StrGe(Tail(a), Tail(b))

\* hex(n)[2:] for n >= 0
RECURSIVE HexOf(_)
HexOf(n) ==
    IF n < 16 THEN <<HexDigits[n + 1]>>
    ELSE HexOf(n \div 16) \o <<HexDigits[(n % 16) + 1]>>

\* The whitespace str.split() and int() skip.
IsSpace(c) == c \in {9, 10, 11, 12, 13, 32}

RECURSIVE LStrip(_)
LStrip(s) ==
    IF s # <<>> /\ IsSpace(Head(s)) THEN LStrip(Tail(s)) ELSE s

RECURSIVE RStrip(_)
RStrip(s) ==
    IF s # <<>> /\ IsSpace(s[Len(s)]) THEN RStrip(SubSeq(s, 1, Len(s) - 1)) ELSE s

\* The length of the longest prefix of s without whitespace.
RECURSIVE WordLen(_)
WordLen(s) ==
    IF s = <<>> \/ IsSpace(Head(s)) THEN 0 ELSE 1 + WordLen(Tail(s))

\* s.split(None, 1): the first word, and what follows the whitespace after
\* it when anything does.
SplitOnce(s) ==
    LET body == LStrip(s)
        wl == WordLen(body)
        rest == LStrip(SubSeq(body, wl + 1, Len(body)))
    IN IF body = <<>> THEN <<>>
       ELSE IF rest = <<>> THEN <<SubSeq(body, 1, wl)>>
       ELSE <<SubSeq(body, 1, wl), rest>>

IsDigits(s) == s # <<>> /\ \A x \in 1..Len(s) : s[x] >= 48 /\ s[x] <= 57

RECURSIVE DigitsValue(_)
DigitsValue(s) ==
    IF s = <<>> THEN 0 ELSE 10 * DigitsValue(SubSeq(s, 1, Len(s) - 1)) + (s[Len(s)] - 48)

\* int(s) of a string of decimal digits with whitespace around it; every
\* other string of the model makes int() raise ValueError.
IntOk(s) == IsDigits(RStrip(LStrip(s)))

IntOf(s) == DigitsValue(RStrip(LStrip(s)))


\* ---------------------------------------------------------------- run_wsgi

\* Optional values: None is <<>>, a value v is <<v>>.
None == <<>>

Some(v) == <<v>>

\* The truth value of an Optional str or list: None and the empty one are
\* false.
Truthy(o) == o # None /\ o[1] # <<>>

\* What one wfile.write call puts on the connection: the status line and the
\* header lines that end_headers flushes, or bytes.
NoStatus == [version |-> <<>>, code |-> 0, message |-> <<>>]

HeadWrite(status_line, headers) ==
    [kind |-> "head", status |-> status_line, headers |-> headers, bytes |-> <<>>]

BytesWrite(b) ==
    [kind |-> "bytes", status |-> NoStatus, headers |-> <<>>, bytes |-> b]

\* An item the application yields: bytes, or an object that is not bytes.
Bytes(b) == [isbytes |-> TRUE, value |-> b]

NotBytes == [isbytes |-> FALSE, value |-> <<>>]

\* The outcome of a call: the handler's state after it, and the exception it
\* raised ("none" when it returned).
Ok(hs) == [hs |-> hs, exc |-> "none"]

Raise(hs, kind) == [hs |-> hs, exc |-> kind]

\* BaseHTTPRequestHandler.send_header: the line is buffered, and a Connection
\* header sets close_connection.
send_header(hs, key, value) ==
    LET buffered == [hs EXCEPT !.headers_buffer = Append(@, <<key, value>>)]
    IN IF Lower(key) = StrConnectionLower
       THEN IF Lower(value) = StrClose
            THEN [buffered EXCEPT !.close_connection = TRUE]
            ELSE IF Lower(value) = StrKeepAlive
                 THEN [buffered EXCEPT !.close_connection = FALSE]
                 ELSE buffered
       ELSE buffered

\* The values of the Server and Date headers, which the handler does not
\* choose.
ServerValue == <<>>

DateValue == <<>>

\* BaseHTTPRequestHandler.send_response: the status line, then the Server
\* and Date headers.
send_response(hs, code, message, protocol_version) ==
    send_header(
        send_header(
            [hs EXCEPT !.status_line =
                [version |-> protocol_version, code |-> code, message |-> message]],
            StrServer, ServerValue),
        StrDate, DateValue)

\* BaseHTTPRequestHandler.end_headers: the buffered lines are written.
end_headers(hs) ==
    [hs EXCEPT !.wfile = Append(@, HeadWrite(hs.status_line, hs.headers_buffer)),
               !.status_line = NoStatus,
               !.headers_buffer = <<>>]

\* for key, value in headers_sent: self.send_header(key, value)
RECURSIVE send_headers(_, _)
send_headers(hs, headers) ==
    IF headers = <<>> THEN hs
    ELSE send_headers(send_header(hs, Head(headers)[1], Head(headers)[2]), Tail(headers))

header_keysExact(headers) == {headers[x][1] : x \in 1..Len(headers)}

\* header_keys after the loop: every key, lower-cased.
header_keys(headers) == {Lower(headers[x][1]) : x \in 1..Len(headers)}

\* The first write of a response: status line and headers.
SendHead(hs, protocol_version) ==
    LET sent == [hs EXCEPT !.status_sent = hs.status_set,
                           !.headers_sent = hs.headers_set]
        parts == SplitOnce(sent.status_sent[1])
        code_str == IF Len(parts) = 2 THEN parts[1] ELSE sent.status_sent[1]
        msg == IF Len(parts) = 2 THEN parts[2] ELSE <<>>
        listed == send_headers(send_response(sent, IntOf(code_str), msg, protocol_version),
                               sent.headers_sent[1])
    IN IF ~IntOk(code_str) THEN Raise(sent, "ValueError")
       ELSE IF StrContentLengthLower \in header_keys(sent.headers_sent[1])
            THEN Ok(end_headers(listed))
            ELSE IF StrGe(protocol_version, StrHttp11)
                 THEN Ok(end_headers(send_header([listed EXCEPT !.chunk_response = TRUE],
                                                 StrTransferEncoding, StrChunked)))
                 ELSE Ok(end_headers(send_header(listed, StrConnection, StrClose)))

SendDataNoCRLF(hs, data) ==
    IF data = <<>> THEN hs
    ELSE IF hs.chunk_response
         THEN [hs EXCEPT !.wfile = @ \o <<BytesWrite(HexOf(Len(data))),
                                         BytesWrite(CRLF),
                                         BytesWrite(data)>>]
         ELSE [hs EXCEPT !.wfile = Append(@, BytesWrite(data))]

\* The writes of write(data) after the head: nothing for empty data, the
\* data, and around it the chunk's size line and CRLF when chunking.
SendData(hs, data) ==
    IF data = <<>> THEN hs
    ELSE IF hs.chunk_response
         THEN [hs EXCEPT !.wfile = @ \o <<BytesWrite(HexOf(Len(data))),
                                         BytesWrite(CRLF),
                                         BytesWrite(data),
                                         BytesWrite(CRLF)>>]
         ELSE [hs EXCEPT !.wfile = Append(@, BytesWrite(data))]

\* write(data)
write(hs, item, protocol_version) ==
    IF hs.status_set = None \/ hs.headers_set = None
    THEN Raise(hs, "AssertionError")
    ELSE LET opened == IF hs.status_sent = None
                       THEN SendHead(hs, protocol_version)
                       ELSE Ok(hs)
         IN IF opened.exc # "none" THEN opened
            ELSE IF ~item.isbytes THEN Raise(opened.hs, "AssertionError")
            ELSE Ok(SendData(opened.hs, item.value))

\* start_response(status, headers, exc_info): exc_info is "" for None, and
\* otherwise names the exception it carries.
start_response(hs, status, headers, exc_info) ==
    LET set == [hs EXCEPT !.status_set = Some(status), !.headers_set = Some(headers)]
    IN IF exc_info # ""
       THEN IF Truthy(hs.headers_sent) THEN Raise(hs, exc_info) ELSE Ok(set)
       ELSE IF Truthy(hs.headers_set) THEN Raise(hs, "AssertionError") ELSE Ok(set)

\* execute(app) after the last item: the head of a response without body,
\* and the last chunk of a chunked one.
finish(hs, protocol_version) ==
    LET flushed == IF ~Truthy(hs.headers_sent)
                   THEN write(hs, Bytes(<<>>), protocol_version)
                   ELSE Ok(hs)
    IN IF flushed.exc # "none" THEN flushed
       ELSE IF flushed.hs.chunk_response
            THEN Ok([flushed.hs EXCEPT !.wfile = Append(@, BytesWrite(LastChunk))])
            ELSE flushed

\* What an application does, one step after the other: it calls
\* start_response, yields an item, or raises.
AppOp(op, status, headers, exc_info, item, kind) ==
    [op |-> op, status |-> status, headers |-> headers, exc_info |-> exc_info,
     item |-> item, kind |-> kind]

StartOp(status, headers, exc_info) ==
    AppOp("start_response", status, headers, exc_info, Bytes(<<>>), "none")

YieldOp(item) == AppOp("yield", <<>>, <<>>, "", item, "none")

RaiseOp(kind) == AppOp("raise", <<>>, <<>>, "", Bytes(<<>>), kind)

ApplyOp(hs, o, protocol_version) ==
    CASE o.op = "start_response" -> start_response(hs, o.status, o.headers, o.exc_info)
      [] o.op = "yield" -> write(hs, o.item, protocol_version)
      [] o.op = "raise" -> Raise(hs, o.kind)

\* execute(app) for an application given by all of its steps.
RECURSIVE execute(_, _, _)
execute(hs, ops, protocol_version) ==
    IF ops = <<>> THEN finish(hs, protocol_version)
    ELSE IF ApplyOp(hs, Head(ops), protocol_version).exc # "none"
         THEN ApplyOp(hs, Head(ops), protocol_version)
         ELSE execute(ApplyOp(hs, Head(ops), protocol_version).hs, Tail(ops),
                      protocol_version)

\* InternalServerError() called as a WSGI application: get_response looks up
\* the name _get_environ, which the module does not define, and the
\* NameError leaves __call__ before start_response is called.
InternalServerError == <<RaiseOp("NameError")>>

CloseOnErrorNotChunked(hs) == hs.status_sent # None /\ ~hs.chunk_response

\* if status_sent is not None and chunk_response: self.close_connection = True
CloseOnError(hs) == hs.status_sent # None /\ hs.chunk_response

\* The except clauses of run_wsgi for an exception raised in
\* execute(self.server.app).
HandleError(hs, kind, passthrough_errors, protocol_version) ==
    LET caught == [hs EXCEPT !.caught = kind,
                             !.mark = Len(hs.wfile),
                             !.pending = hs.status_set # None /\ hs.status_sent = None,
                             !.pc = "done"]
        closing == IF CloseOnError(caught)
                   THEN [caught EXCEPT !.close_connection = TRUE]
                   ELSE caught
        rolled == IF closing.status_sent = None
                  THEN [closing EXCEPT !.status_set = None, !.headers_set = None]
                  ELSE closing
    IN IF kind \in {"ConnectionError", "timeout"} THEN caught
       ELSE IF passthrough_errors THEN [caught EXCEPT !.propagated = TRUE]
       ELSE [execute(rolled, InternalServerError, protocol_version).hs
                EXCEPT !.fallback = TRUE]

\* The handler of a request that was parsed and not yet answered.
NewHandler(close_connection) ==
    [pc |-> "start",
     status_set |-> None, headers_set |-> None,
     status_sent |-> None, headers_sent |-> None,
     chunk_response |-> FALSE,
     close_connection |-> close_connection,
     status_line |-> NoStatus, headers_buffer |-> <<>>,
     wfile |-> <<>>,
     exhausted |-> FALSE,   \* the application's iterator ran to its end
     caught |-> "none",     \* the exception execute(self.server.app) raised
     mark |-> -1,           \* the number of writes when it was caught
     pending |-> FALSE,     \* a status was set and not sent when it was caught
     propagated |-> FALSE,  \* run_wsgi raised it again
     fallback |-> FALSE]    \* execute(InternalServerError()) was called

ProtocolVersions == {StrHttp09, StrHttp10, StrHttp11, StrHttp20}

HeaderLists ==
    { <<>>,
      << <<StrContentType, StrTextPlain>> >>,
      << <<StrContentLength, StrOne>> >>,
      << <<StrContentType, StrTextPlain>>, <<StrContentLengthUpper, StrOne>> >>,
      << <<StrConnection, StrKeepAlive>> >> }

StartOps ==
    {StartOp(Str200, h, "") : h \in HeaderLists}
        \cup {StartOp(Str200, << <<StrContentType, StrTextPlain>> >>, "Exception"),
              StartOp(StrOK, << <<StrContentType, StrTextPlain>> >>, "")}

Items == {Bytes(<<>>), Bytes(<<97>>), Bytes(Rep(26, 98)), NotBytes}

YieldOps == {YieldOp(it) : it \in Items}

RaiseKinds == {"Exception", "ConnectionError"}

RaiseOps == {RaiseOp(kind) : kind \in RaiseKinds}

\* The most steps an application takes before its iterator ends.
MaxOps == 4

InitServe ==
    /\ Constructed(<<>>, 512, "bytes")
    /\ AddIdle
    /\ EnvironIdle
    /\ LaunchIdle
    /\ MoreIdle
    /\ \E pv \in ProtocolVersions, pe \in BOOLEAN, ex \in BOOLEAN, ka \in BOOLEAN :
          /\ request = [protocol_version |-> pv, passthrough_errors |-> pe,
                        expect |-> ex, keep_alive |-> ka, ops |-> <<>>]
          /\ handler = NewHandler(~(ka /\ StrGe(pv, StrHttp11)))

\* run_wsgi up to the call of execute(self.server.app).
RunWsgi ==
    /\ handler.pc = "start"
    /\ handler' = [handler EXCEPT
                      !.wfile = IF request.expect
                                THEN Append(@, BytesWrite(StrContinue))
                                ELSE @,
                      !.status_set = None, !.headers_set = None,
                      !.status_sent = None, !.headers_sent = None,
                      !.chunk_response = FALSE,
                      !.pc = "execute"]
    /\ UNCHANGED <<request, hashVars, addVars, environVars, launchVars, moreVars>>

\* One step of the application inside execute(self.server.app), and the
\* except clauses when the step raises.
AppStep(o) ==
    /\ handler.pc = "execute"
    /\ Len(request.ops) < MaxOps
    /\ handler' =
          IF ApplyOp(handler, o, request.protocol_version).exc = "none"
          THEN ApplyOp(handler, o, request.protocol_version).hs
          ELSE HandleError(ApplyOp(handler, o, request.protocol_version).hs,
                           ApplyOp(handler, o, request.protocol_version).exc,
                           request.passthrough_errors, request.protocol_version)
    /\ request' = [request EXCEPT !.ops = Append(@, o)]
    /\ UNCHANGED <<hashVars, addVars, environVars, launchVars, moreVars>>

\* The application's iterator ends: the rest of execute, and the except
\* clauses when it raises.
IterEnd ==
    /\ handler.pc = "execute"
    /\ handler' =
          IF finish(handler, request.protocol_version).exc = "none"
          THEN [finish(handler, request.protocol_version).hs
                   EXCEPT !.pc = "done", !.exhausted = TRUE]
          ELSE HandleError([finish(handler, request.protocol_version).hs
                               EXCEPT !.exhausted = TRUE],
                           finish(handler, request.protocol_version).exc,
                           request.passthrough_errors, request.protocol_version)
    /\ UNCHANGED <<request, hashVars, addVars, environVars, launchVars, moreVars>>

NextServe ==
    \/ RunWsgi
    \/ \E o \in StartOps : AppStep(o)
    \/ \E o \in YieldOps : AppStep(o)
    \/ \E o \in RaiseOps : AppStep(o)
    \/ IterEnd

SpecServe == InitServe /\ [][NextServe]_vars

\* ---------------------------------------------------------------- serving properties

\* The handler has left run_wsgi.
Answered == handler.pc = "done"

\* The writes that carry a status line.
Heads == {x \in 1..Len(handler.wfile) : handler.wfile[x].kind = "head"}

\* The application raised an exception of its own or of the handler's
\* callables, before a status line was written, and run_wsgi handled it.
RaisedBeforeBytes ==
    /\ Answered
    /\ handler.fallback
    /\ \A x \in Heads : x > handler.mark

\* C11: when the application raises before any response bytes have been
\* sent, whether or not it already called start_response, the handler
\* discards the pending status and headers and sends a complete 500
\* Internal Server Error response instead.
C11_ErrorResponse ==
    RaisedBeforeBytes =>
        /\ Heads # {}
        /\ \A x \in Heads : handler.wfile[x].status.code = 500

\* The response was being sent chunked when execute(self.server.app) raised:
\* its head had been written.
ChunkedTruncated ==
    /\ Answered
    /\ handler.caught # "none"
    /\ handler.chunk_response
    /\ \E x \in Heads : x <= handler.mark

\* Nothing follows what was written when the exception was caught: no last
\* chunk, no second status line, no error body.
NothingAfterError ==
    /\ Len(handler.wfile) = handler.mark
    /\ Cardinality(Heads) = 1
    /\ \A x \in 1..Len(handler.wfile) : handler.wfile[x].bytes # LastChunk

\* run_wsgi treats the exception as an error of the application: it is no
\* ConnectionError or socket.timeout, and passthrough_errors is off.
HandledAsError ==
    /\ handler.caught \notin {"ConnectionError", "timeout"}
    /\ ~request.passthrough_errors

\* C12: when a chunked response is being sent and the application iterator
\* raises after the headers were sent, the terminating chunk is never
\* written and no second status line or error body is written; and the
\* connection is marked to be closed when the handler treats the exception
\* as an error of the application (passthrough_errors off, and neither a
\* ConnectionError nor a socket.timeout).
C12_ChunkedTruncation ==
    ChunkedTruncated =>
        /\ NothingAfterError
        /\ HandledAsError => handler.close_connection

\* A keep-alive connection, two chunks sent, then an exception: the
\* connection is marked to be closed.
C12_Witness ==
    /\ ChunkedTruncated
    /\ HandledAsError
    /\ request.keep_alive
    /\ request.protocol_version = StrHttp11
    /\ handler.mark > 5
    /\ handler.close_connection

\* C12 as stated: the connection is marked to be closed whatever the
\* exception and the server's passthrough_errors.
C12_AlwaysClosed ==
    ChunkedTruncated =>
        /\ NothingAfterError
        /\ handler.close_connection

\* The numbers of a protocol version "HTTP/<major>.<minor>" of one digit
\* each.
Major(pv) == pv[6] - 48

Minor(pv) == pv[8] - 48

\* HTTP/1.1 or later, by the numbers.
AtLeast11(pv) == Major(pv) > 1 \/ (Major(pv) = 1 /\ Minor(pv) >= 1)

\* A Content-Length header in any spelling of upper and lower case.
HasContentLength(headers) ==
    \E x \in 1..Len(headers) : Upper(headers[x][1]) = StrContentLengthUpper

\* The bytes written after the status line and headers, write by write.
BodyWrites ==
    LET hd == CHOOSE x \in Heads : TRUE
    IN [x \in 1..(Len(handler.wfile) - hd) |-> handler.wfile[hd + x].bytes]

IsData(o) == o.op = "yield" /\ o.item.isbytes /\ o.item.value # <<>>

\* The non-empty items the application yielded, in order.
YieldedData ==
    LET sel == SelectSeq(request.ops, IsData)
    IN [x \in 1..Len(sel) |-> sel[x].item.value]

\* C13: the head holds the Server and Date headers, the application's
\* headers, and then: without a Content-Length among the application's
\* headers (in any case), Transfer-Encoding: chunked when the protocol
\* version is HTTP/1.1 or later and Connection: close otherwise; with a
\* Content-Length, nothing more, and the body is the items as yielded.
C13_Framing ==
    \A x \in Heads :
        LET line == handler.wfile[x].headers
            sent == handler.headers_sent[1]
            added == SubSeq(line, 3 + Len(sent), Len(line))
        IN /\ Len(line) >= 2 + Len(sent)
           /\ SubSeq(line, 1, 2 + Len(sent))
                 = << <<StrServer, ServerValue>>, <<StrDate, DateValue>> >> \o sent
           /\ IF HasContentLength(sent)
              THEN /\ added = <<>>
                   /\ ~handler.chunk_response
                   /\ BodyWrites = YieldedData
              ELSE IF AtLeast11(request.protocol_version)
                   THEN /\ added = << <<StrTransferEncoding, StrChunked>> >>
                        /\ handler.chunk_response
                   ELSE /\ added = << <<StrConnection, StrClose>> >>
                        /\ ~handler.chunk_response

\* An HTTP/1.1 handler, a header spelled CONTENT-LENGTH, and a body item
\* written unframed.
C13_Witness ==
    /\ Answered
    /\ Heads # {}
    /\ request.protocol_version = StrHttp11
    /\ \E x \in 1..Len(handler.headers_sent[1]) :
          handler.headers_sent[1][x][1] = StrContentLengthUpper
    /\ BodyWrites = <<Rep(26, 98)>>

\* The other two cases: chunked on HTTP/2.0, Connection: close on HTTP/1.0.
C13_WitnessChunked ==
    /\ Answered
    /\ request.protocol_version = StrHttp20
    /\ \E x \in Heads : handler.wfile[x].headers[Len(handler.wfile[x].headers)]
                            = <<StrTransferEncoding, StrChunked>>

C13_WitnessClose ==
    /\ Answered
    /\ request.protocol_version = StrHttp10
    /\ \E x \in Heads : handler.wfile[x].headers[Len(handler.wfile[x].headers)]
                            = <<StrConnection, StrClose>>

\* The value of a string of lower-case hexadecimal digits, -1 when it is
\* none.
RECURSIVE HexValue(_)
HexValue(s) ==
    IF s = <<>> THEN -1
    ELSE LET dv == IF s[Len(s)] >= 48 /\ s[Len(s)] <= 57 THEN s[Len(s)] - 48
                   ELSE IF s[Len(s)] >= 97 /\ s[Len(s)] <= 102 THEN s[Len(s)] - 87
                   ELSE -1
             up == IF Len(s) = 1 THEN 0 ELSE HexValue(SubSeq(s, 1, Len(s) - 1))
         IN IF dv < 0 \/ up < 0 THEN -1 ELSE 16 * up + dv

\* The positions of s where a CRLF starts.
CRLFs(s) == {p \in 1..(Len(s) - 1) : s[p] = 13 /\ s[p + 1] = 10}

Min(S) == CHOOSE p \in S : \A z \in S : p <= z

\* A chunked body decoded as a client reads it: the data of the chunks
\* before the last chunk, and whether the body ends with the last chunk
\* ("closed"), ends before it ("open"), or is no chunked body ("bad").
RECURSIVE Dechunk(_, _)
Dechunk(s, got) ==
    IF s = <<>> THEN [data |-> got, state |-> "open"]
    ELSE IF CRLFs(s) = {} THEN [data |-> got, state |-> "bad"]
    ELSE LET p == Min(CRLFs(s))
             sz == HexValue(SubSeq(s, 1, p - 1))
             after == SubSeq(s, p + 2, Len(s))
         IN IF sz < 0 THEN [data |-> got, state |-> "bad"]
            ELSE IF sz = 0
                 THEN [data |-> got,
                       state |-> IF after = CRLF THEN "closed" ELSE "bad"]
                 ELSE IF Len(after) < sz + 2
                         \/ SubSeq(after, sz + 1, sz + 2) # CRLF
                      THEN [data |-> got, state |-> "bad"]
                      ELSE Dechunk(SubSeq(after, sz + 3, Len(after)),
                                   Append(got, SubSeq(after, 1, sz)))

\* The application's iterator ended and nothing was raised.
Succeeded == Answered /\ handler.exhausted /\ handler.caught = "none"

\* C14: in chunked mode the body written so far decodes to the non-empty
\* items the application has yielded, in order, each sent as its length in
\* hexadecimal, CRLF, the data, CRLF; empty items add nothing; and the body
\* ends with the last chunk "0\r\n\r\n", once, exactly when the iterator
\* finished without raising.
C14_ChunkedStream ==
    (Heads # {} /\ handler.chunk_response) =>
        /\ Dechunk(Flatten(BodyWrites), <<>>)
              = [data |-> YieldedData,
                 state |-> IF Succeeded THEN "closed" ELSE "open"]
        /\ Cardinality({x \in 1..Len(BodyWrites) : BodyWrites[x] = LastChunk})
              = IF Succeeded THEN 1 ELSE 0
        /\ Succeeded => BodyWrites[Len(BodyWrites)] = LastChunk

\* A successful chunked response of an empty item between two chunks of 1
\* and 26 bytes (lengths "1" and "1a").
C14_Witness ==
    /\ Succeeded
    /\ handler.chunk_response
    /\ \E x \in 1..Len(request.ops) :
          request.ops[x].op = "yield" /\ request.ops[x].item = Bytes(<<>>)
    /\ YieldedData = << <<97>>, Rep(26, 98) >>
    /\ Flatten(BodyWrites)
          = <<49>> \o CRLF \o <<97>> \o CRLF
               \o <<49, 97>> \o CRLF \o Rep(26, 98) \o CRLF \o LastChunk

\* ---------------------------------------------------------------- make_environ

\* "Host"
StrHost == <<72, 111, 115, 116>>

\* "X-Foo"
StrXFoo == <<88, 45, 70, 111, 111>>

\* "x-foo"
StrXFooLower == <<120, 45, 102, 111, 111>>

\* "X_Foo"
StrXFooUnderscore == <<88, 95, 70, 111, 111>>

\* "HTTP_"
StrHttpPrefix == <<72, 84, 84, 80, 95>>

\* "CONTENT_TYPE"
StrEnvContentType == <<67, 79, 78, 84, 69, 78, 84, 95, 84, 89, 80, 69>>

\* "CONTENT_LENGTH"
StrEnvContentLength == <<67, 79, 78, 84, 69, 78, 84, 95, 76, 69, 78, 71, 84, 72>>

\* "HTTP_TRANSFER_ENCODING"
StrEnvTransferEncoding == <<72, 84, 84, 80, 95, 84, 82, 65, 78, 83, 70, 69, 82, 95, 69, 78, 67, 79, 68, 73, 78, 71>>

\* "HTTP_HOST"
StrEnvHost == <<72, 84, 84, 80, 95, 72, 79, 83, 84>>

\* "REQUEST_METHOD"
StrEnvRequestMethod == <<82, 69, 81, 85, 69, 83, 84, 95, 77, 69, 84, 72, 79, 68>>

\* "GET"
StrGet == <<71, 69, 84>>

\* "localhost"
StrLocalhost == <<108, 111, 99, 97, 108, 104, 111, 115, 116>>

\* "example.org"
StrExample == <<101, 120, 97, 109, 112, 108, 101, 46, 111, 114, 103>>

\* "double-slash"
StrDoubleSlash == <<100, 111, 117, 98, 108, 101, 45, 115, 108, 97, 115, 104>>

\* "http"
StrSchemeHttp == <<104, 116, 116, 112>>

\* "a "
StrValueA == <<97, 32>>

\* "b"
StrValueB == <<98>>

\* "c\r\n d"
StrValueFolded == <<99, 13, 10, 32, 100>>

\* " Chunked "
StrChunkedSpaced == <<32, 67, 104, 117, 110, 107, 101, 100, 32>>
\* str.replace(old, new) for a non-empty old: the occurrences of old are
\* replaced from the left, without overlap.
RECURSIVE Replace(_, _, _)
Replace(s, old, new) ==
    IF Len(s) < Len(old) THEN s
    ELSE IF SubSeq(s, 1, Len(old)) = old
         THEN new \o Replace(SubSeq(s, Len(old) + 1, Len(s)), old, new)
         ELSE <<Head(s)>> \o Replace(Tail(s), old, new)

\* The environ before the header loop: of its keys, none of which a header
\* can produce, REQUEST_METHOD stands for all.
BaseEnviron == [name \in {StrEnvRequestMethod} |-> StrGet]

\* environ[key] = value
SetItem(env, key, value) ==
    [name \in DOMAIN env \cup {key} |-> IF name = key THEN value ELSE env[name]]

add_headerOverwrite(env, key, value) ==
    LET upper == Replace(Upper(key), <<45>>, <<95>>)
        clean == Replace(value, CRLF, <<>>)
    IN IF upper \in {StrEnvContentType, StrEnvContentLength}
       THEN SetItem(env, upper, clean)
       ELSE SetItem(env, StrHttpPrefix \o upper, clean)

\* The body of the loop over self.headers.items().
add_header(env, key, value) ==
    LET upper == Replace(Upper(key), <<45>>, <<95>>)
        clean == Replace(value, CRLF, <<>>)
    IN IF upper \in {StrEnvContentType, StrEnvContentLength}
       THEN SetItem(env, upper, clean)
       ELSE IF (StrHttpPrefix \o upper) \in DOMAIN env
            THEN SetItem(env, StrHttpPrefix \o upper,
                         env[StrHttpPrefix \o upper] \o <<44>> \o clean)
            ELSE SetItem(env, StrHttpPrefix \o upper, clean)

\* environ.get("HTTP_TRANSFER_ENCODING", "").strip().lower() == "chunked"
InputChunked(env) ==
    /\ StrEnvTransferEncoding \in DOMAIN env
    /\ Lower(RStrip(LStrip(env[StrEnvTransferEncoding]))) = StrChunked

\* if request_url.scheme and request_url.netloc: the URL's netloc is the host.
HostOfUrl(env, request_url) ==
    IF request_url.scheme # <<>> /\ request_url.netloc # <<>>
    THEN SetItem(env, StrEnvHost, request_url.netloc)
    ELSE env

\* url_parse(self.path) of a path, of an absolute URL, and of a path of two
\* slashes: scheme and netloc.
RequestUrls ==
    { [scheme |-> <<>>, netloc |-> <<>>],
      [scheme |-> StrSchemeHttp, netloc |-> StrExample],
      [scheme |-> <<>>, netloc |-> StrDoubleSlash] }

HeaderLines ==
    { <<StrHost, StrLocalhost>>,
      <<StrXFoo, StrValueA>>,
      <<StrXFooLower, StrValueB>>,
      <<StrXFooUnderscore, StrValueFolded>>,
      <<StrContentType, StrTextPlain>>,
      <<StrContentLength, StrOne>>,
      <<StrTransferEncoding, StrChunkedSpaced>> }

\* The most header lines of a request.
MaxHeaders == 3

RECURSIVE SeqsUpTo(_, _)
SeqsUpTo(S, k) ==
    IF k = 0 THEN {<<>>}
    ELSE SeqsUpTo(S, k - 1)
            \cup {Append(q, z) : q \in SeqsUpTo(S, k - 1), z \in S}

InitEnviron ==
    /\ Constructed(<<>>, 512, "bytes")
    /\ AddIdle
    /\ ServeIdle
    /\ LaunchIdle
    /\ MoreIdle
    /\ \E u \in RequestUrls, hl \in SeqsUpTo(HeaderLines, MaxHeaders) :
          received = [request_url |-> u, headers |-> hl]
    /\ environ = [pc |-> "start", at |-> 0, env |-> <<>>, input_terminated |-> FALSE]

\* make_environ up to the loop over the headers.
BeginEnviron ==
    /\ environ.pc = "start"
    /\ environ' = [environ EXCEPT !.pc = "headers", !.at = 1, !.env = BaseEnviron]
    /\ UNCHANGED <<received, hashVars, addVars, serveVars, launchVars, moreVars>>

\* One round of the loop.
NextHeader ==
    /\ environ.pc = "headers"
    /\ environ.at <= Len(received.headers)
    /\ environ' = [environ EXCEPT
                      !.at = @ + 1,
                      !.env = add_header(@, received.headers[environ.at][1],
                                            received.headers[environ.at][2])]
    /\ UNCHANGED <<received, hashVars, addVars, serveVars, launchVars, moreVars>>

\* make_environ after the loop.
ReturnEnviron ==
    /\ environ.pc = "headers"
    /\ environ.at > Len(received.headers)
    /\ environ' = [environ EXCEPT
                      !.pc = "done",
                      !.input_terminated = InputChunked(environ.env),
                      !.env = HostOfUrl(@, received.request_url)]
    /\ UNCHANGED <<received, hashVars, addVars, serveVars, launchVars, moreVars>>

NextEnviron ==
    \/ BeginEnviron
    \/ NextHeader
    \/ ReturnEnviron

SpecEnviron == InitEnviron /\ [][NextEnviron]_vars

\* ---------------------------------------------------------------- make_environ properties

\* The name under which the environ files a header key: letters in upper
\* case, "_" for "-".
EnvName(key) ==
    SeqOf([x \in 1..Len(key) |->
              IF key[x] >= 97 /\ key[x] <= 122 THEN key[x] - 32
              ELSE IF key[x] = 45 THEN 95
              ELSE key[x]])

NotLineBreak(ch) == ch \notin {13, 10}

\* A header value without the line breaks of folding.
Unfold(value) == SelectSeq(value, NotLineBreak)

\* The values received under the environ name nm, in the order received.
ValuesOf(nm) ==
    LET Named(line) == EnvName(line[1]) = nm
        sel == SelectSeq(received.headers, Named)
    IN [x \in 1..Len(sel) |-> sel[x][2]]

RECURSIVE JoinComma(_)
JoinComma(vs) ==
    IF Len(vs) = 0 THEN <<>>
    ELSE IF Len(vs) = 1 THEN vs[1]
    ELSE vs[1] \o <<44>> \o JoinComma(Tail(vs))

Unfolded(vs) == [x \in 1..Len(vs) |-> Unfold(vs[x])]

ReceivedNames == {EnvName(received.headers[x][1]) : x \in 1..Len(received.headers)}

ContentNames == {StrEnvContentType, StrEnvContentLength}

AbsoluteUrl == received.request_url.scheme # <<>> /\ received.request_url.netloc # <<>>

\* Content-Type and Content-Length: filed without the HTTP_ prefix, and
\* absent when not received.
ContentEntries ==
    \A nm \in ContentNames :
        /\ (nm \in DOMAIN environ.env) <=> (nm \in ReceivedNames)
        /\ (StrHttpPrefix \o nm) \notin DOMAIN environ.env
        /\ nm \in ReceivedNames =>
              environ.env[nm] = Unfold(ValuesOf(nm)[Len(ValuesOf(nm))])

Ports ==
    { [type |-> "int", repr |-> "5000"],
      [type |-> "int", repr |-> "0"],
      [type |-> "bool", repr |-> "True"],
      [type |-> "str", repr |-> "'5000'"],
      [type |-> "float", repr |-> "5000.0"],
      [type |-> "NoneType", repr |-> "None"] }

\* isinstance(port, int): bool is a subclass of int.
IsInt(port) == port.type \in {"int", "bool"}

InitLaunch ==
    /\ Constructed(<<>>, 512, "bytes")
    /\ AddIdle
    /\ ServeIdle
    /\ EnvironIdle
    /\ MoreIdle
    /\ \E port \in Ports, static_files \in BOOLEAN, reloader \in BOOLEAN,
          in_use \in BOOLEAN :
          launch = [port |-> port,
                    static_files |-> static_files,  \* static_files is given
                    reloader |-> reloader,          \* is_running_from_reloader()
                    in_use |-> in_use,              \* the address is in use
                    pc |-> "start",
                    effects |-> <<>>,
                    exc_type |-> "none",
                    exc_msg |-> ""]

CheckPortAfterSocket ==
    /\ launch.pc = "start"
    /\ launch' = IF IsInt(launch.port)
                 THEN [launch EXCEPT !.pc = "static"]
                 ELSE [launch EXCEPT !.pc = "done",
                                     !.effects = Append(@, "socket"),
                                     !.exc_type = "TypeError",
                                     !.exc_msg = "port must be an integer"]
    /\ UNCHANGED <<hashVars, addVars, serveVars, environVars, moreVars>>

\* if not isinstance(port, int): raise TypeError("port must be an integer")
CheckPort ==
    /\ launch.pc = "start"
    /\ launch' = IF IsInt(launch.port)
                 THEN [launch EXCEPT !.pc = "static"]
                 ELSE [launch EXCEPT !.pc = "done",
                                     !.exc_type = "TypeError",
                                     !.exc_msg = "port must be an integer"]
    /\ UNCHANGED <<hashVars, addVars, serveVars, environVars, moreVars>>

\* if static_files: the application is wrapped.
WrapStatic ==
    /\ launch.pc = "static"
    /\ launch' = [launch EXCEPT
                     !.pc = "socket",
                     !.effects = IF launch.static_files
                                 THEN Append(@, "SharedDataMiddleware")
                                 ELSE @]
    /\ UNCHANGED <<hashVars, addVars, serveVars, environVars, moreVars>>

\* prepare_socket and SERVER_FD outside the reloader's child, SERVER_FD read
\* inside it; sys.exit(1) when bind fails.
PrepareSocket ==
    /\ launch.pc = "socket"
    /\ launch' =
          IF launch.reloader
          THEN [launch EXCEPT !.pc = "server"]
          ELSE IF launch.in_use
               THEN [launch EXCEPT !.pc = "done",
                                   !.effects = @ \o <<"socket">>,
                                   !.exc_type = "SystemExit",
                                   !.exc_msg = "1"]
               ELSE [launch EXCEPT !.pc = "server",
                                   !.effects = @ \o <<"socket", "bind", "listen",
                                                      "setenv SERVER_FD">>]
    /\ UNCHANGED <<hashVars, addVars, serveVars, environVars, moreVars>>

\* srv = make_server(...)
MakeServer ==
    /\ launch.pc = "server"
    /\ launch' = [launch EXCEPT !.pc = "serve", !.effects = Append(@, "make_server")]
    /\ UNCHANGED <<hashVars, addVars, serveVars, environVars, moreVars>>

\* srv.serve_forever()
ServeForever ==
    /\ launch.pc = "serve"
    /\ launch' = [launch EXCEPT !.pc = "serving", !.effects = Append(@, "serve_forever")]
    /\ UNCHANGED <<hashVars, addVars, serveVars, environVars, moreVars>>

NextLaunch ==
    \/ CheckPort
    \/ WrapStatic
    \/ PrepareSocket
    \/ MakeServer
    \/ ServeForever

SpecLaunch == InitLaunch /\ [][NextLaunch]_vars

\* C16: run_simple with a port that is not an int raises
\* TypeError("port must be an integer") before any socket is created or
\* bound, any environment variable is set, or any server is started: it has
\* had no effect at all.
C16_PortMustBeInt ==
    (~IsInt(launch.port) /\ launch.pc # "start") =>
        /\ launch.pc = "done"
        /\ launch.exc_type = "TypeError"
        /\ launch.exc_msg = "port must be an integer"
        /\ launch.effects = <<>>

\* run_simple(hostname, "5000", app) has raised, outside the reloader and
\* with the address free.
C16_Witness ==
    /\ launch.port.type = "str"
    /\ ~launch.reloader
    /\ ~launch.in_use
    /\ launch.pc = "done"
    /\ launch.exc_type = "TypeError"

\* ---------------------------------------------------------------- digest properties, continued

\* The step value and the block of every g call of a computation.
Steps(r) == [x \in 1..Len(r.calls) |-> <<r.calls[x].n, r.calls[x].msg>>]

\* C21: every digest() starts from hsh = 64 bytes 0x01 when digest_size is
\* 256 and 64 bytes 0x00 otherwise, from n = 0 and from the zero checksum,
\* also after an earlier digest() on the same object; the computation of the
\* same message with the other digest size has the same blocks, step values,
\* n and checksum, and the value returned is the whole final hsh or, for
\* 256, its second half.
C21_InitialState ==
    Digested =>
        LET nb      == FullBlocks(run.input)
            blocks  == SeqOf([x \in 1..(nb + 1) |-> run.calls[x].msg])
            other   == DigestRun(run.input, IF obj.digest_size = 256 THEN 512 ELSE 256)
        IN  /\ run.calls[1].hsh
                  = [x \in 1..64 |-> IF obj.digest_size = 256 THEN 1 ELSE 0]
            /\ run.calls[1].n = 0
            /\ run.chk = SumBlocks(blocks)
            /\ Steps(other) = Steps(run)
            /\ other.n = run.n
            /\ other.chk = run.chk
            /\ run.ret = IF obj.digest_size = 256
                         THEN [x \in 1..32 |-> run.hsh[32 + x]]
                         ELSE run.hsh

\* C21 witness: the second digest() on an object of digest_size 256 with a
\* message of more than one block.
C21_Witness ==
    /\ Digested
    /\ ndig = 2
    /\ obj.digest_size = 256
    /\ Len(run.calls) = 4
    /\ run.calls[1].hsh = Rep(64, 1)
    /\ run.calls[1].n = 0

\* C22: hsh is 64 bytes before and after every g call of digest(), for every
\* digest size, and every block given to g is 64 bytes: the message blocks,
\* the padded block, the length block and the checksum; only the value
\* returned is shorter, 32 bytes for digest_size 256.
C22_BlockSizes ==
    Digested =>
        /\ \A x \in 1..Len(run.calls) :
              /\ Len(run.calls[x].hsh) = 64
              /\ Len(run.calls[x].msg) = 64
        /\ Len(run.hsh) = 64
        /\ Len(run.chk) = 64
        /\ Len(run.ret) = IF obj.digest_size = 256 THEN 32 ELSE 64

\* C22 witness: a digest of digest_size 256 over two message blocks and the
\* three final blocks.
C22_Witness ==
    /\ Digested
    /\ obj.digest_size = 256
    /\ Len(run.calls) = 4
    /\ Len(run.hsh) = 64
    /\ Len(run.ret) = 32

\* ---------------------------------------------------------------- g, E and L

RECURSIVE Shr8(_, _)
\* n >> (8 * x)
Shr8(n, x) == IF x = 0 THEN n ELSE Shr8(n \div 256, x - 1)

\* The keying block of the compression function: byte x of hsh, XORed with
\* byte x of the little-endian 64-bit n for the first eight bytes only.
KeyBlock(n, hsh) ==
    SeqOf([x \in 1..64 |->
        IF x <= 8 THEN Xor8(hsh[x], Shr8(n, x - 1) % 256) ELSE hsh[x]])

\* C23: g(n, hsh, msg) is E(K, msg) xor hsh xor msg with K = LPS of the keying
\* block, in which n changes the first eight bytes of hsh only and bytes
\* 8..63 of hsh are as they were.
C23_Compression ==
    core # <<>> /\ core.fn = "g" =>
        LET kk == LPS(KeyBlock(core.n, core.hsh))
            ee == E(kk, core.msg)
        IN  core.out = SeqOf([x \in 1..64 |-> Xor8(Xor8(ee[x], core.hsh[x]), core.msg[x])])

\* C23 witness: g applied with a step value of more than one non-zero byte to
\* a non-constant hsh and a different block.
C23_Witness ==
    /\ core # <<>>
    /\ core.fn = "g"
    /\ core.n = 66048
    /\ core.hsh = SeqOf([x \in 1..BLOCKSIZE |-> x - 1])
    /\ core.msg = Rep(BLOCKSIZE, 255)
    /\ Len(core.out) = 64

\* The round keys K_0 = k, K_i = LPS(K_(i-1) xor C[i-1]), for i up to rounds,
\* as a sequence: ks[i + 1] is K_i.
RECURSIVE KeySchedule(_, _)
KeySchedule(ks, rounds) ==
    IF Len(ks) = rounds + 1 THEN ks
    ELSE Forced(ks[Len(ks)],
           KeySchedule(Append(ks, LPS(strxor(ks[Len(ks)], C[Len(ks)]))), rounds))

\* The block after rounds i + 1 .. Len(ks) - 1, each LPS(K_(j-1) xor block).
RECURSIVE Encrypt(_, _, _)
Encrypt(ks, block, i) ==
    IF i = Len(ks) - 1 THEN block
    ELSE Forced(block, Encrypt(ks, LPS(strxor(ks[i + 1], block)), i + 1))

\* C24: E(k, msg) is K_12 xor the block after twelve rounds, where round i
\* (0..11) replaces the block by LPS(K_i xor block) with the key from before
\* that round's key update, and K_(i+1) = LPS(K_i xor C[i]): twelve constants,
\* in index order, each once.
C24_TwelveRounds ==
    core # <<>> /\ core.fn = "E" =>
        LET ks == KeySchedule(<<core.hsh>>, 12)
        IN  /\ Len(ks) = 13
            /\ core.out = strxor(ks[13], Encrypt(ks, core.msg, 0))

\* C24 witness: E applied to a non-constant key and a different block.
C24_Witness ==
    /\ core # <<>>
    /\ core.fn = "E"
    /\ core.hsh = SeqOf([x \in 1..BLOCKSIZE |-> x - 1])
    /\ core.msg = Rep(BLOCKSIZE, 1)
    /\ Len(core.out) = 64

\* Bit b (0 = least significant) of the 64-bit word with little-endian bytes w.
WordBit(w, b) == (w[(b \div 8) + 1] \div Pow2[(b % 8) + 1]) % 2

\* Bit b (0 = least significant) of the constant A[j].
ABit(j, b) == (A[j + 1][8 - (b \div 8)] \div Pow2[(b % 8) + 1]) % 2

\* Bit b of the XOR of A[j] over the j in 0..63 for which bit 63 - j of the
\* word w is set.
MaskedBit(w, b) ==
    Cardinality({j \in 0..63 : WordBit(w, 63 - j) = 1 /\ ABit(j, b) = 1}) % 2

RECURSIVE BitsValue(_, _, _)
\* The byte whose bit c is MaskedBit(w, 8 * q + c), from bit c on.
BitsValue(w, q, c) ==
    IF c = 8 THEN 0
    ELSE MaskedBit(w, 8 * q + c) * Pow2[c + 1] + BitsValue(w, q, c + 1)

\* Word i of the result made from word i of data alone, the words in order.
LinearMap(data) ==
    SeqOf([x \in 1..64 |->
        BitsValue(Slice(data, 8 * ((x - 1) \div 8), 8 * ((x - 1) \div 8) + 8),
                  (x - 1) % 8, 0)])

\* C25: word i of L(data) is the XOR of A[j] over exactly the j for which bit
\* 63 - j of word i of data is set, the words read and written little-endian
\* and kept in order; L(x xor y) = L(x) xor L(y), and L of the zero block is
\* the zero block.
C25_Linear ==
    core # <<>> /\ core.fn = "L" =>
        /\ core.out = LinearMap(core.hsh)
        /\ L(strxor(core.hsh, core.msg)) = strxor(core.out, L(core.msg))
        /\ (core.hsh = Zeros(64) => core.out = Zeros(64))

\* C25 witness: L applied to a block of eight different words, with a second
\* block at hand that differs from it.
C25_Witness ==
    /\ core # <<>>
    /\ core.fn = "L"
    /\ core.hsh = SeqOf([x \in 1..BLOCKSIZE |-> x - 1])
    /\ core.msg = SeqOf([x \in 1..BLOCKSIZE |-> (37 * x + 11) % 256])
    /\ core.out # Zeros(64)

\* ---------------------------------------------------------------- LimitedStream

\* The wrapped stream is an io.BytesIO over s.data at position s.upos.
\* stream.read(k): the rest for k < 0, at most k bytes otherwise.
stream_read(s, k) ==
    LET left == Len(s.data) - s.upos
        cnt == IF k < 0 \/ k > left THEN left ELSE k
    IN  [ls |-> [s EXCEPT !.upos = @ + cnt],
         ret |-> Slice(s.data, s.upos, s.upos + cnt)]

\* stream.readline(k): up to and with the next "\n", or the rest when there
\* is none; at most k bytes of it for k >= 0.
stream_readline(s, k) ==
    LET left == Len(s.data) - s.upos
        ends == {x \in 1..left : s.data[s.upos + x] = 10}
        line == IF ends = {} THEN left ELSE Min(ends)
        cnt == IF k < 0 \/ k > line THEN line ELSE k
    IN  [ls |-> [s EXCEPT !.upos = @ + cnt],
         ret |-> Slice(s.data, s.upos, s.upos + cnt)]

\* LimitedStream(stream, limit)
LimitedStream(data, limit) ==
    [data |-> data, upos |-> 0, limit |-> limit, pos |-> 0]

is_exhausted(s) == s.pos >= s.limit

tell(s) == s.pos

on_exhausted(s) ==
    LET r == stream_read(s, 0)
    IN  [ls |-> r.ls, ret |-> r.ret, exc |-> "none"]

\* on_disconnect() after the wrapped stream was read: the position is not updated.
on_disconnect(s) == [ls |-> s, ret |-> <<>>, exc |-> "ClientDisconnected"]

\* read(size), size None or Some(k)
read(s, size) ==
    IF s.pos >= s.limit THEN on_exhausted(s)
    ELSE LET sz == IF size = None \/ size = Some(-1) THEN s.limit ELSE size[1]
             to_read == Min({s.limit - s.pos, sz})
             r == stream_read(s, to_read)
         IN  IF to_read # 0 /\ Len(r.ret) # to_read
             THEN on_disconnect(r.ls)
             ELSE [ls |-> [r.ls EXCEPT !.pos = @ + Len(r.ret)],
                   ret |-> r.ret, exc |-> "none"]

\* readline(size), size None or Some(k)
readline(s, size) ==
    IF s.pos >= s.limit THEN on_exhausted(s)
    ELSE LET sz == IF size = None THEN s.limit - s.pos
                   ELSE Min({size[1], s.limit - s.pos})
             r == stream_readline(s, sz)
         IN  IF sz # 0 /\ r.ret = <<>>
             THEN on_disconnect(r.ls)
             ELSE [ls |-> [r.ls EXCEPT !.pos = @ + Len(r.ret)],
                   ret |-> r.ret, exc |-> "none"]

\* The loop of readlines: "size -= last_pos - self._pos" subtracts 0 every
\* time, last_pos being set to self._pos at the end of each round.
RECURSIVE readlines_loop(_, _, _, _)
readlines_loop(s, size, end, result) ==
    IF s.pos >= end THEN [ls |-> s, ret |-> result, exc |-> "none"]
    ELSE LET r == readline(s, size)
         IN  IF r.exc # "none" THEN [ls |-> r.ls, ret |-> <<>>, exc |-> r.exc]
             ELSE readlines_loop(r.ls, size, end, result \o r.ret)

\* readlines(size); the lines returned are kept joined.
readlines(s, size) ==
    readlines_loop(s, size,
                   IF size = None THEN s.limit ELSE Min({s.limit, s.pos + size[1]}),
                   <<>>)

RECURSIVE exhaust_loop(_, _, _)
exhaust_loop(s, to_read, chunk) ==
    IF to_read <= 0 THEN [ls |-> s, ret |-> <<>>, exc |-> "none"]
    ELSE LET c == Min({to_read, chunk})
             r == read(s, Some(c))
         IN  IF r.exc # "none" THEN [ls |-> r.ls, ret |-> <<>>, exc |-> r.exc]
             ELSE exhaust_loop(r.ls, to_read - c, c)

\* exhaust(chunk_size), chunk_size > 0
exhaust(s, chunk_size) == exhaust_loop(s, s.limit - s.pos, chunk_size)

\* __next__()
next(s) ==
    LET r == readline(s, None)
    IN  IF r.exc = "none" /\ r.ret = <<>>
        THEN [ls |-> r.ls, ret |-> <<>>, exc |-> "StopIteration"]
        ELSE r

\* "ab\ncd\n" and "a\nbcdefg"
StreamData == {<<97, 98, 10, 99, 100, 10>>, <<97, 10, 98, 99, 100, 101, 102, 103>>}

Limits == {0, 2, 4, 7}

ReadSizes == {None, Some(-1), Some(0), Some(1), Some(3)}

ChunkSizes == {1, 3, 65536}

MaxReads == 3

InitStream ==
    /\ Constructed(<<>>, 512, "bytes")
    /\ AddIdle
    /\ ServerIdle
    /\ StoreIdle
    /\ FormIdle
    /\ DechunkIdle
    /\ CoreIdle
    /\ \E data \in StreamData, limit \in Limits :
          stream = [ls |-> LimitedStream(data, limit), op |-> "init", calls |-> 0,
                    was_exhausted |-> FALSE, took |-> 0, ret |-> <<>>, exc |-> "none"]

\* One method call on the object, r what it did.
StreamCall(op, r) ==
    /\ stream.calls < MaxReads
    /\ stream' = [ls |-> r.ls, op |-> op, calls |-> stream.calls + 1,
                  was_exhausted |-> is_exhausted(stream.ls),
                  took |-> r.ls.upos - stream.ls.upos,
                  ret |-> r.ret, exc |-> r.exc]
    /\ UNCHANGED <<hashVars, addVars, serverVars, coreVars, dechunkVars, formVars, storeVars>>

Read(size) == StreamCall("read", read(stream.ls, size))

ReadLine(size) == StreamCall("readline", readline(stream.ls, size))

ReadLines(size) == StreamCall("readlines", readlines(stream.ls, size))

Exhaust(chunk_size) == StreamCall("exhaust", exhaust(stream.ls, chunk_size))

Iterate == StreamCall("next", next(stream.ls))

NextStream ==
    \/ \E size \in ReadSizes : Read(size)
    \/ \E size \in ReadSizes : ReadLine(size)
    \/ \E size \in ReadSizes : ReadLines(size)
    \/ \E chunk_size \in ChunkSizes : Exhaust(chunk_size)
    \/ Iterate

SpecStream == InitStream /\ [][NextStream]_vars

\* C26: after any calls of read, readline, readlines, exhaust and __next__,
\* also after a ClientDisconnected, the bytes taken from the wrapped stream
\* are at most limit, 0 <= tell() <= limit, and a call made when is_exhausted
\* was true returned nothing and took nothing from the wrapped stream.
C26_WithinLimit ==
    stream # <<>> =>
        /\ stream.ls.upos <= stream.ls.limit
        /\ 0 <= tell(stream.ls)
        /\ tell(stream.ls) <= stream.ls.limit
        /\ (stream.was_exhausted => stream.ret = <<>> /\ stream.took = 0)

\* ---------------------------------------------------------------- one head

\* Step x of the application is a start_response call without exc_info that
\* comes after an earlier start_response call.
SecondStart(x) ==
    /\ request.ops[x].op = "start_response"
    /\ request.ops[x].exc_info = ""
    /\ \E y \in 1..(x - 1) : request.ops[y].op = "start_response"

\* Step x of the application yields an item before any start_response call.
EarlyWrite(x) ==
    /\ request.ops[x].op = "yield"
    /\ \A y \in 1..(x - 1) : request.ops[y].op # "start_response"

\* The step was the application's last and left run_wsgi's execute with an
\* AssertionError.
FailedAssertion(x) ==
    /\ x = Len(request.ops)
    /\ handler.caught = "AssertionError"

\* A status line is written at most once, and only the interim response to
\* Expect: 100-continue is written before it.
HeadFirst ==
    /\ Cardinality(Heads) <= 1
    /\ \A x \in Heads : \A y \in 1..(x - 1) : handler.wfile[y].bytes = StrContinue

\* C27: within one request the status line and headers are written at most
\* once and before any body byte; write() before start_response fails its
\* assertion; a second start_response without exc_info after the headers
\* were set raises AssertionError; and after the head was sent a failure of
\* the application writes no second status line.
C27_HeadOnce ==
    handler # <<>> =>
        /\ HeadFirst
        /\ (Heads = {} =>
               \A y \in 1..Len(handler.wfile) : handler.wfile[y].bytes = StrContinue)
        /\ \A x \in 1..Len(request.ops) : EarlyWrite(x) => FailedAssertion(x)
        /\ \A x \in 1..Len(request.ops) : SecondStart(x) => FailedAssertion(x)

\* ---------------------------------------------------------------- DechunkedInput

\* self._rfile is a buffered reader over d.rfile at position d.rpos.
\* readline(): up to and with the next "\n", or the rest.
rfile_readline(d) ==
    LET left == Len(d.rfile) - d.rpos
        ends == {x \in 1..left : d.rfile[d.rpos + x] = 10}
        cnt == IF ends = {} THEN left ELSE Min(ends)
    IN  [d |-> [d EXCEPT !.rpos = @ + cnt],
         bytes |-> Slice(d.rfile, d.rpos, d.rpos + cnt)]

\* read(k), k >= 0: k bytes, or the rest when fewer are left.
rfile_read(d, k) ==
    LET left == Len(d.rfile) - d.rpos
        cnt == IF k > left THEN left ELSE k
    IN  [d |-> [d EXCEPT !.rpos = @ + cnt],
         bytes |-> Slice(d.rfile, d.rpos, d.rpos + cnt)]

\* The value of a hexadecimal digit in either case, -1 for any other character.
HexDigitValue(c) ==
    IF c >= 48 /\ c <= 57 THEN c - 48
    ELSE IF c >= 97 /\ c <= 102 THEN c - 87
    ELSE IF c >= 65 /\ c <= 70 THEN c - 55
    ELSE -1

RECURSIVE HexDigitsValue(_, _)
HexDigitsValue(s, sum) ==
    IF s = <<>> THEN sum ELSE HexDigitsValue(Tail(s), 16 * sum + HexDigitValue(Head(s)))

\* The digits v of int(s, 16), after the sign and the prefix: at least one
\* digit and nothing but digits, or ok is FALSE for a ValueError.
Int16Digits(negative, v) ==
    IF v = <<>> \/ \E x \in 1..Len(v) : HexDigitValue(v[x]) < 0
    THEN [ok |-> FALSE, value |-> 0]
    ELSE [ok |-> TRUE,
          value |-> IF negative THEN 0 - HexDigitsValue(v, 0) ELSE HexDigitsValue(v, 0)]

\* The text u of int(s, 16) after the sign: an optional prefix 0x or 0X.
Int16Unsigned(negative, u) ==
    IF Len(u) >= 2 /\ u[1] = 48 /\ u[2] \in {120, 88}
    THEN Int16Digits(negative, SubSeq(u, 3, Len(u)))
    ELSE Int16Digits(negative, u)

\* The text t of int(s, 16) without the whitespace around it: an optional sign.
Int16Stripped(t) ==
    IF t # <<>> /\ t[1] \in {43, 45}
    THEN Int16Unsigned(t[1] = 45, Tail(t))
    ELSE Int16Unsigned(FALSE, t)

\* int(s, 16) for s without underscores: whitespace around, a sign, a prefix
\* 0x or 0X and at least one digit; ok is FALSE for a ValueError.
Int16(s) == Int16Stripped(RStrip(LStrip(s)))

\* DechunkedInput(rfile); hdrs counts the calls of read_chunk_len.
DechunkedInput(rfile) ==
    [rfile |-> rfile, rpos |-> 0, done |-> FALSE, len |-> 0, hdrs |-> 0]

\* read_chunk_len() after int(line, 16): ValueError and a negative length
\* are raised as OSError.
chunk_len_parsed(after, parsed) ==
    IF ~parsed.ok THEN [d |-> after, len |-> 0, exc |-> "OSError"]
    ELSE IF parsed.value < 0 THEN [d |-> after, len |-> 0, exc |-> "OSError"]
    ELSE [d |-> after, len |-> parsed.value, exc |-> "none"]

\* read_chunk_len() after line = self._rfile.readline()
chunk_len_line(r) == chunk_len_parsed([r.d EXCEPT !.hdrs = @ + 1], Int16(r.bytes))

\* read_chunk_len()
read_chunk_len(d) == chunk_len_line(rfile_readline(d))

\* The "if self._len > 0" block with n = self._len, whatever the buffer holds.
read_payloadWhole(d, buflen, count) ==
    LET r == rfile_read(d, d.len)
    IN  [d |-> [r.d EXCEPT !.len = 0], count |-> count + d.len, bytes |-> r.bytes]

\* The "if self._len > 0" block of readinto: count is the local read.
read_payload(d, buflen, count) ==
    LET n == IF buflen < d.len THEN buflen ELSE d.len
    IN  IF count + n > buflen
        THEN LET r == rfile_read(d, buflen - count)
             IN  [d |-> [r.d EXCEPT !.len = @ - (buflen - count)],
                  count |-> buflen, bytes |-> r.bytes]
        ELSE LET r == rfile_read(d, n)
             IN  [d |-> [r.d EXCEPT !.len = @ - n],
                  count |-> count + n, bytes |-> r.bytes]

\* The terminators readinto accepts: "\n", "\r\n" and "\r".
Terminators == {<<10>>, <<13, 10>>, <<13>>}

\* The while loop of readinto(buf) for a buffer of buflen bytes; stored is
\* what was written to buf so far.
RECURSIVE readinto_loop(_, _, _, _)

\* "if self._len == 0" at the end of a pass, p being what the payload block
\* left: the chunk's terminator t is read and checked.
readinto_terminator(p, t, buflen, stored) ==
    IF t.bytes \notin Terminators
    THEN [d |-> t.d, ret |-> 0, buf |-> stored, exc |-> "OSError"]
    ELSE readinto_loop(t.d, buflen, p.count, stored)

\* The rest of a pass after the payload block.
readinto_chunk_end(p, buflen, stored) ==
    IF p.d.len = 0
    THEN readinto_terminator(p, rfile_readline(p.d), buflen, stored \o p.bytes)
    ELSE readinto_loop(p.d, buflen, p.count, stored \o p.bytes)

\* A pass after "if self._len == 0: self._done = True".
readinto_payload(d, buflen, count, stored) ==
    IF d.len > 0
    THEN readinto_chunk_end(read_payload(d, buflen, count), buflen, stored)
    ELSE readinto_chunk_end([d |-> d, count |-> count, bytes |-> <<>>], buflen, stored)

\* A pass after "if self._len == 0: self._len = self.read_chunk_len()".
readinto_header(h, buflen, count, stored) ==
    IF h.exc # "none"
    THEN [d |-> h.d, ret |-> 0, buf |-> stored, exc |-> h.exc]
    ELSE readinto_payload([h.d EXCEPT !.len = h.len, !.done = (h.len = 0)],
                          buflen, count, stored)

readinto_loop(d, buflen, count, stored) ==
    IF d.done \/ count >= buflen
    THEN [d |-> d, ret |-> count, buf |-> stored, exc |-> "none"]
    ELSE IF d.len = 0
    THEN readinto_header(read_chunk_len(d), buflen, count, stored)
    ELSE readinto_header([d |-> d, len |-> d.len, exc |-> "none"], buflen, count, stored)

\* readinto(buf) with len(buf) = buflen
readinto(d, buflen) == readinto_loop(d, buflen, 0, <<>>)

\* A request body in chunked transfer encoding: every payload as its length
\* in hexadecimal, eol, the payload, eol; then "0", eol, eol.
RECURSIVE ChunkedBody(_, _)
ChunkedBody(payloads, eol) ==
    IF payloads = <<>> THEN <<48>> \o eol \o eol
    ELSE HexOf(Len(Head(payloads))) \o eol \o Head(payloads) \o eol
            \o ChunkedBody(Tail(payloads), eol)

WellFormed(payloads, eol) ==
    [kind |-> "well-formed", payloads |-> payloads, defect_at |-> 0,
     rfile |-> ChunkedBody(payloads, eol)]

Malformed(kind, defect_at, rfile) ==
    [kind |-> kind, payloads |-> <<>>, defect_at |-> defect_at, rfile |-> rfile]

\* "abc"
StrAbc == <<97, 98, 99>>

\* "de"
StrDe == <<100, 101>>

\* "0123456789"
StrTenDigits == <<48, 49, 50, 51, 52, 53, 54, 55, 56, 57>>

DechunkBodies ==
    {WellFormed(<<>>, CRLF),
     WellFormed(<<StrAbc>>, CRLF),
     WellFormed(<<StrAbc, StrDe>>, CRLF),
     WellFormed(<<StrDe, StrTenDigits>>, CRLF),
     WellFormed(<<StrAbc, StrDe>>, <<10>>),
     \* "A\r\n0123456789\r\n0\r\n\r\n"
     [WellFormed(<<StrTenDigits>>, CRLF) EXCEPT
         !.rfile = <<65>> \o CRLF \o StrTenDigits \o CRLF \o LastChunk],
     \* "zz\r\nabc\r\n0\r\n\r\n"
     Malformed("non-hex", 0, <<122, 122>> \o CRLF \o StrAbc \o CRLF \o LastChunk),
     \* "3;x=1\r\nabc\r\n0\r\n\r\n"
     Malformed("non-hex", 0, <<51, 59, 120, 61, 49>> \o CRLF \o StrAbc \o CRLF \o LastChunk),
     \* "-3\r\nabc\r\n0\r\n\r\n"
     Malformed("negative", 0, <<45, 51>> \o CRLF \o StrAbc \o CRLF \o LastChunk),
     \* "3\r\nabc2\r\nde\r\n0\r\n\r\n"
     Malformed("no-newline", 3, <<51>> \o CRLF \o StrAbc \o <<50>> \o CRLF \o StrDe
                                   \o CRLF \o LastChunk),
     \* "3\r\nabc"
     Malformed("no-newline", 3, <<51>> \o CRLF \o StrAbc)}

BufSizes == {0, 1, 4, 16}

MaxReadInto == 5

InitDechunk ==
    /\ Constructed(<<>>, 512, "bytes")
    /\ AddIdle
    /\ ServerIdle
    /\ StoreIdle
    /\ FormIdle
    /\ CoreIdle
    /\ StreamIdle
    /\ \E body \in DechunkBodies :
          dechunk = [input |-> body, d |-> DechunkedInput(body.rfile), out |-> <<>>,
                     calls |-> 0, buflen |-> 0, ret |-> 0, buf |-> <<>>,
                     exc |-> "none", was_done |-> FALSE, took |-> 0, before |-> 0]

\* readinto(buf) on the object, for a buffer of buflen bytes.
ReadInto(buflen) ==
    /\ dechunk.calls < MaxReadInto
    /\ dechunk.exc = "none"
    /\ \E r \in {readinto(dechunk.d, buflen)} :
          dechunk' = [dechunk EXCEPT
                         !.d = r.d,
                         !.out = IF r.exc = "none" THEN @ \o r.buf ELSE @,
                         !.calls = @ + 1,
                         !.buflen = buflen,
                         !.ret = r.ret,
                         !.buf = r.buf,
                         !.exc = r.exc,
                         !.was_done = dechunk.d.done,
                         !.took = r.d.rpos - dechunk.d.rpos,
                         !.before = Len(dechunk.out)]
    /\ UNCHANGED <<hashVars, addVars, serverVars, coreVars, streamVars, formVars, storeVars>>

NextDechunk == \E buflen \in BufSizes : ReadInto(buflen)

SpecDechunk == InitDechunk /\ [][NextDechunk]_vars

\* The number of payloads of which the first n bytes of the body's data
\* hold at least one byte.
RECURSIVE ChunksBegun(_, _)
ChunksBegun(payloads, n) ==
    IF payloads = <<>> \/ n <= 0 THEN 0
    ELSE 1 + ChunksBegun(Tail(payloads), n - Len(Head(payloads)))

InputStream(kind, data, limit) ==
    [kind |-> kind, ls |-> LimitedStream(data, limit)]

\* stream.read(k)
input_read(st, k) ==
    IF st.kind = "LimitedStream"
    THEN LET r == read(st.ls, Some(k))
         IN  [st |-> [st EXCEPT !.ls = r.ls], bytes |-> r.ret]
    ELSE LET r == stream_read(st.ls, k)
         IN  [st |-> [st EXCEPT !.ls = r.ls], bytes |-> r.ret]

\* bts = stream.read(64 * 1024); while bts: bts = stream.read(64 * 1024)
RECURSIVE ExhaustReads(_)
ExhaustReads(st) ==
    LET r == input_read(st, 65536)
    IN  IF r.bytes = <<>> THEN r.st ELSE ExhaustReads(r.st)

\* What a call leaves: the stream, the exception it raised ("none" when it
\* returned), the parse function parse() called, and the form and files it
\* returned.
Outcome(st, exc, invoked, parsed) ==
    [st |-> st, exc |-> exc, invoked |-> invoked, parsed |-> parsed]

\* The wrapper of exhaust_stream draining only when f returned.
exhaust_streamOnReturn(res) ==
    IF res.exc # "none" THEN res
    ELSE IF res.st.kind = "LimitedStream"
         THEN [res EXCEPT !.st.ls = exhaust(res.st.ls, 65536).ls]
         ELSE [res EXCEPT !.st = ExhaustReads(res.st)]

\* The finally clause of the wrapper of exhaust_stream, after f returned or
\* raised with the outcome res.
exhaust_stream(res) ==
    IF res.st.kind = "LimitedStream"
    THEN [res EXCEPT !.st.ls = exhaust(res.st.ls, 65536).ls]
    ELSE [res EXCEPT !.st = ExhaustReads(res.st)]

\* What MultiPartParser.parse or url_decode_stream does with the stream: it
\* reads take bytes of it, and returns or raises.
Inner(st, take, exc, fn) ==
    Outcome(input_read(st, take).st, exc, fn, exc = "none")

\* _parse_multipart(stream, mimetype, content_length, options)
parse_multipart(fdp, st, content_length, boundary, take, inner_exc) ==
    exhaust_stream(
        IF boundary = <<>> THEN Outcome(st, "ValueError", "_parse_multipart", FALSE)
        ELSE Inner(st, take, inner_exc, "_parse_multipart"))

\* _parse_urlencoded(stream, mimetype, content_length, options)
parse_urlencoded(fdp, st, content_length, take, inner_exc) ==
    exhaust_stream(
        IF /\ fdp.max_form_memory_size # None
           /\ content_length # None
           /\ content_length[1] > fdp.max_form_memory_size[1]
        THEN Outcome(ExhaustReads(st), "RequestEntityTooLarge", "_parse_urlencoded", FALSE)
        ELSE Inner(st, take, inner_exc, "_parse_urlencoded"))

\* parse_functions
ParseFunctions ==
    {"multipart/form-data", "application/x-www-form-urlencoded", "application/x-url-encoded"}

\* parse(stream, mimetype, content_length, options)
parse(fdp, st, mimetype, content_length, boundary, take, inner_exc) ==
    IF /\ fdp.max_content_length # None
       /\ content_length # None
       /\ content_length[1] > fdp.max_content_length[1]
    THEN Outcome(ExhaustReads(st), "RequestEntityTooLarge", "none", FALSE)
    ELSE IF mimetype \notin ParseFunctions
    THEN Outcome(st, "none", "none", FALSE)
    ELSE LET res == IF mimetype = "multipart/form-data"
                    THEN parse_multipart(fdp, st, content_length, boundary, take, inner_exc)
                    ELSE parse_urlencoded(fdp, st, content_length, take, inner_exc)
         IN  IF res.exc = "ValueError" /\ fdp.silent
             THEN [res EXCEPT !.exc = "none", !.parsed = FALSE]
             ELSE res

\* "ab=c&d=e"
StrFormBody == <<97, 98, 61, 99, 38, 100, 61, 101>>

FormStreams ==
    {InputStream("BytesIO", StrFormBody, 0),
     InputStream("BytesIO", <<>>, 0),
     InputStream("LimitedStream", StrFormBody, 8),
     InputStream("LimitedStream", StrFormBody, 5)}

Mimetypes == ParseFunctions \cup {"text/plain"}

OptionalLengths == {None, Some(0), Some(5), Some(8)}

\* What MultiPartParser.parse and url_decode_stream can raise.
InnerExceptions == {"none", "ValueError", "RequestEntityTooLarge"}

\* The bytes they read before that.
Takes == {0, 3, 8}

InitForm ==
    /\ Constructed(<<>>, 512, "bytes")
    /\ AddIdle
    /\ ServerIdle
    /\ StoreIdle
    /\ CoreIdle
    /\ StreamIdle
    /\ DechunkIdle
    /\ \E mcl \in OptionalLengths, mfm \in {None, Some(5)}, silent \in BOOLEAN,
          st \in FormStreams, cl \in OptionalLengths, boundary \in {<<>>, <<45, 45, 120>>} :
          form = [fdp |-> [max_content_length |-> mcl, max_form_memory_size |-> mfm,
                           silent |-> silent],
                  stream |-> st, content_length |-> cl, boundary |-> boundary,
                  fn |-> "none", mimetype |-> "", inner |-> "none",
                  out |-> Outcome(st, "none", "none", FALSE)]

\* FormDataParser.parse called once.
Parse(mimetype, take, inner_exc) ==
    /\ form.fn = "none"
    /\ form' = [form EXCEPT
                   !.fn = "parse", !.mimetype = mimetype, !.inner = inner_exc,
                   !.out = parse(form.fdp, form.stream, mimetype, form.content_length,
                                 form.boundary, take, inner_exc)]
    /\ UNCHANGED <<hashVars, addVars, serverVars, coreVars, streamVars, dechunkVars, storeVars>>

\* FormDataParser._parse_multipart called once.
ParseMultipart(take, inner_exc) ==
    /\ form.fn = "none"
    /\ form' = [form EXCEPT
                   !.fn = "_parse_multipart", !.mimetype = "multipart/form-data",
                   !.inner = inner_exc,
                   !.out = parse_multipart(form.fdp, form.stream, form.content_length,
                                           form.boundary, take, inner_exc)]
    /\ UNCHANGED <<hashVars, addVars, serverVars, coreVars, streamVars, dechunkVars, storeVars>>

\* FormDataParser._parse_urlencoded called once.
ParseUrlencoded(take, inner_exc) ==
    /\ form.fn = "none"
    /\ form' = [form EXCEPT
                   !.fn = "_parse_urlencoded",
                   !.mimetype = "application/x-www-form-urlencoded",
                   !.inner = inner_exc,
                   !.out = parse_urlencoded(form.fdp, form.stream, form.content_length,
                                            take, inner_exc)]
    /\ UNCHANGED <<hashVars, addVars, serverVars, coreVars, streamVars, dechunkVars, storeVars>>

NextForm ==
    \/ \E mimetype \in Mimetypes, take \in Takes, inner_exc \in InnerExceptions :
          Parse(mimetype, take, inner_exc)
    \/ \E take \in Takes, inner_exc \in InnerExceptions : ParseMultipart(take, inner_exc)
    \/ \E take \in Takes, inner_exc \in InnerExceptions : ParseUrlencoded(take, inner_exc)

SpecForm == InitForm /\ [][NextForm]_vars

\* Nothing is left to read from the stream.
Drained(st) ==
    IF st.kind = "LimitedStream" THEN is_exhausted(st.ls)
    ELSE st.ls.upos = Len(st.ls.data)

\* content_length exceeds max_content_length, both given.
TooLarge ==
    /\ form.fdp.max_content_length # None
    /\ form.content_length # None
    /\ form.content_length[1] > form.fdp.max_content_length[1]

\* parse() with silent called a parse function and that raised ValueError:
\* its parser did, or _parse_multipart found no boundary.
SilencedValueError ==
    /\ form.fn = "parse"
    /\ form.fdp.silent
    /\ \/ form.out.invoked = "_parse_multipart" /\ form.boundary = <<>>
       \/ /\ form.out.invoked # "none"
          /\ form.inner = "ValueError"
          /\ ~(/\ form.out.invoked = "_parse_urlencoded"
               /\ form.fdp.max_form_memory_size # None
               /\ form.content_length # None
               /\ form.content_length[1] > form.fdp.max_form_memory_size[1])

\* C29: when _parse_multipart or _parse_urlencoded returned or raised, called
\* by parse() or directly, the input stream is drained; when content_length
\* exceeds max_content_length, parse() drains the stream and raises
\* RequestEntityTooLarge and calls no parse function; with silent a
\* ValueError of a parse function makes parse() return the stream with an
\* empty form and empty files.
C29_Drained ==
    form # <<>> /\ form.fn # "none" =>
        /\ form.out.invoked # "none" => Drained(form.out.st)
        /\ form.fn # "parse" => form.out.invoked = form.fn
        /\ (form.fn = "parse" /\ TooLarge =>
               /\ Drained(form.out.st)
               /\ form.out.exc = "RequestEntityTooLarge"
               /\ form.out.invoked = "none")
        /\ (SilencedValueError =>
               /\ form.out.exc = "none"
               /\ ~form.out.parsed
               /\ form.out.st.ls.data = form.stream.ls.data)

\* C29 witness: parse() with silent on a multipart body whose parser read
\* three bytes and raised ValueError; the stream was not drained before.
C29_Witness ==
    /\ form # <<>>
    /\ form.fn = "parse"
    /\ form.fdp.silent
    /\ form.out.invoked = "_parse_multipart"
    /\ form.boundary # <<>>
    /\ form.inner = "ValueError"
    /\ ~Drained(form.stream)
    /\ Drained(form.out.st)
    /\ form.out.exc = "none"

\* ---------------------------------------------------------------- file store

RECURSIVE UpdateAll(_, _)
\* for chunk in ...: gost_hash.update(chunk)
UpdateAll(self, cs) ==
    IF cs = <<>> THEN self ELSE UpdateAll(update(self, Head(cs)), Tail(cs))

\* calculate_hash over the chunks of a file
calculate_hash(cs) == hexdigest(UpdateAll(GOST341112(<<>>, 512, "bytes"), cs)).ret

\* The chunks of a file shorter than 8192 bytes: iter(lambda: f.read(8192), b"").
ChunksOf(content) == IF content = <<>> THEN <<>> ELSE <<content>>

\* The files the clients upload: "1", "20" and "0".
Contents == {<<49>>, <<50, 48>>, <<48>>}

\* calculate_hash of each of them, from the chunks of the upload or of the
\* stored file, computed once.
HashOf == [c \in Contents |-> calculate_hash(ChunksOf(c))]

Filenames == {"a.txt", "b.txt"}

\* hash[:2]
dir_name(h) == h[1]

\* The files of the directory path that hash to h: the entries of
\* os.listdir(path) for which the loop does not go on.  hashed is
\* calculate_hash of every content (HashOf), handed down by the request.
Matching(hashed, files, path, h) ==
    {e \in files : e.dir = path /\ hashed[e.content] = h}

Response(status, body) == [status |-> status, body |-> body]

\* What a request leaves: the store and the response; an exception that
\* leaves application() is the response "exception".
Served(dirs, files, resp) == [dirs |-> dirs, files |-> files, resp |-> resp]

\* upload_file(req) after hash_upload = calculate_hash(file) and
\* path = hash_upload[:2]; oserror: mkdir or save raises OSError.
upload_save(st, filename, content, hash_upload, path, oserror) ==
    IF oserror
    THEN Served(st.dirs, st.files, Response("UNAVAILABLE_FOR_LEGAL_REASONS", <<>>))
    ELSE Served(st.dirs \cup {path},
                {e \in st.files : ~(e.dir = path /\ e.name = filename)}
                    \cup {[dir |-> path, name |-> filename, content |-> content]},
                Response("OK", hash_upload))

\* upload_file(req) for an uploaded file
upload_file(hashed, st, filename, content, oserror) ==
    upload_save(st, filename, content, hashed[content], dir_name(hashed[content]), oserror)

\* download_file(req) for the query hash_download=h; the outcomes are one per
\* order in which os.listdir can list the directory.
download_file(hashed, st, h, oserror) ==
    IF dir_name(h) \notin st.dirs
    THEN {Served(st.dirs, st.files, Response("exception", <<>>))}
    ELSE IF Matching(hashed, st.files, dir_name(h), h) = {}
    THEN {Served(st.dirs, st.files, Response("BAD_REQUEST", <<>>))}
    ELSE IF oserror
    THEN {Served(st.dirs, st.files, Response("UNAVAILABLE_FOR_LEGAL_REASONS", <<>>))}
    ELSE {Served(st.dirs, st.files, Response("file", e.content)) :
             e \in Matching(hashed, st.files, dir_name(h), h)}

\* delete_file(req) for the query hash_delete=h
delete_file(hashed, st, h, oserror) ==
    IF dir_name(h) \notin st.dirs
    THEN {Served(st.dirs, st.files, Response("exception", <<>>))}
    ELSE IF Matching(hashed, st.files, dir_name(h), h) = {}
    THEN {Served(st.dirs, st.files, Response("BAD_REQUEST", <<>>))}
    ELSE IF oserror
    THEN {Served(st.dirs, st.files, Response("UNAVAILABLE_FOR_LEGAL_REASONS", <<>>))}
    ELSE {Served(st.dirs, st.files \ {e}, Response("OK", <<>>)) :
             e \in Matching(hashed, st.files, dir_name(h), h)}

\* The most requests the application serves.
MaxRequests == 4

InitStore ==
    /\ Constructed(<<>>, 512, "bytes")
    /\ AddIdle
    /\ ServerIdle
    /\ CoreIdle
    /\ StreamIdle
    /\ DechunkIdle
    /\ FormIdle
    /\ store = [st |-> Served({}, {}, Response("none", <<>>)),
                op |-> "none", arg |-> <<>>, served |-> 0,
                kept |-> {}]

\* application() for a POST request with an uploaded file.  kept holds the
\* hashes an upload returned and no delete has succeeded for since.
Upload(hashed, filename, content, oserror) ==
    /\ store.served < MaxRequests
    /\ \E r \in {upload_file(hashed, store.st, filename, content, oserror)} :
          store' = [st |-> r, op |-> "upload", arg |-> hashed[content],
                    served |-> store.served + 1,
                    kept |-> IF r.resp.status = "OK"
                             THEN store.kept \cup {hashed[content]} ELSE store.kept]
    /\ UNCHANGED <<hashVars, addVars, serverVars, coreVars, streamVars, dechunkVars, formVars>>

\* application() for a GET request with hash_download in the query.
Download(hashed, h, oserror) ==
    /\ store.served < MaxRequests
    /\ \E r \in download_file(hashed, store.st, h, oserror) :
          store' = [store EXCEPT !.st = r, !.op = "download", !.arg = h,
                                 !.served = @ + 1]
    /\ UNCHANGED <<hashVars, addVars, serverVars, coreVars, streamVars, dechunkVars, formVars>>

\* application() for a GET request with hash_delete in the query.
Delete(hashed, h, oserror) ==
    /\ store.served < MaxRequests
    /\ \E r \in delete_file(hashed, store.st, h, oserror) :
          store' = [st |-> r, op |-> "delete", arg |-> h,
                    served |-> store.served + 1,
                    kept |-> IF r.resp.status = "OK" THEN store.kept \ {h} ELSE store.kept]
    /\ UNCHANGED <<hashVars, addVars, serverVars, coreVars, streamVars, dechunkVars, formVars>>

\* application() for a request: an upload, or a query that names the hash
\* of some content.
application(hashed) ==
    \/ \E filename \in Filenames, content \in Contents, oserror \in BOOLEAN :
          Upload(hashed, filename, content, oserror)
    \/ \E content \in Contents, oserror \in BOOLEAN :
          Download(hashed, hashed[content], oserror)
    \/ \E content \in Contents, oserror \in BOOLEAN :
          Delete(hashed, hashed[content], oserror)

NextStore == \E hashed \in {HashOf} : application(hashed)

SpecStore == InitStore /\ [][NextStore]_vars

\* C30: a download request for a hash that an upload returned, with no
\* successful delete of that hash since, returns a file with that hash: the
\* hash of the stored file is the hash of the upload (unless sending the file
\* fails with OSError).
C30_RoundTrip ==
    store # <<>> /\ store.op = "download" /\ store.arg \in store.kept =>
        \/ store.st.resp.status = "UNAVAILABLE_FOR_LEGAL_REASONS"
        \/ /\ store.st.resp.status = "file"
           /\ HashOf[store.st.resp.body] = store.arg

====
